---- MODULE Spec2Model ----
(***************************************************************************)
(* Model of the GEO diagnosis pipeline of miya025/ai-geo-diagnosis:        *)
(*   src/lib/scraper.ts        validateUrlSecurity, scrapeUrl              *)
(*   src/lib/supabase-client   generateUrlHash, generateContentHash,       *)
(*                             getCachedResult                             *)
(*   src/lib/supabase-admin.ts checkAndResetCredits, consumeCredit,        *)
(*                             saveCachedResult                            *)
(*   src/pages/api/diagnose.ts POST                                        *)
(*                                                                         *)
(* Text the code matches with regular expressions (host names, addresses,  *)
(* URLs) is a sequence of one-character strings, so that a pattern is      *)
(* evaluated character by character as the regular expression does.        *)
(***************************************************************************)
EXTENDS Integers, Sequences, FiniteSets, TLC

(***************************************************************************)
(* Text helpers                                                            *)
(***************************************************************************)
DigitChars == <<"0","1","2","3","4","5","6","7","8","9">>

HexChars == <<"0","1","2","3","4","5","6","7","8","9","a","b","c","d","e","f">>

UpperChars == <<"A","B","C","D","E","F","G","H","I","J","K","L","M",
                "N","O","P","Q","R","S","T","U","V","W","X","Y","Z">>

LowerChars == <<"a","b","c","d","e","f","g","h","i","j","k","l","m",
                "n","o","p","q","r","s","t","u","v","w","x","y","z">>

IsDigit(c) == \E i \in DOMAIN DigitChars : DigitChars[i] = c

\* the value of a digit character; -1 for any other character
DigitVal(c) == IF IsDigit(c) THEN (CHOOSE i \in DOMAIN DigitChars : DigitChars[i] = c) - 1 ELSE -1

\* c is a digit in the character class [lo-hi]
InClass(c, lo, hi) == DigitVal(c) >= lo /\ DigitVal(c) <= hi

\* the i-th character of s, "" past its end
At(s, i) == IF i >= 1 /\ i <= Len(s) THEN s[i] ELSE ""

LowerChar(c) ==
    IF \E i \in DOMAIN UpperChars : UpperChars[i] = c
    THEN LowerChars[CHOOSE i \in DOMAIN UpperChars : UpperChars[i] = c]
    ELSE c

\* String.prototype.toLowerCase
ToLowerCase(s) == [i \in 1..Len(s) |-> LowerChar(s[i])]

StartsWith(s, p) == Len(s) >= Len(p) /\ SubSeq(s, 1, Len(p)) = p

EndsWith(s, p) == Len(s) >= Len(p) /\ SubSeq(s, Len(s) - Len(p) + 1, Len(s)) = p

\* index of the first character of s at or after i that lies in cs, Len(s)+1 if none
RECURSIVE IndexOfAny(_, _, _)
IndexOfAny(s, cs, i) ==
    IF i > Len(s) THEN Len(s) + 1
    ELSE IF s[i] \in cs THEN i
    ELSE IndexOfAny(s, cs, i + 1)

RECURSIVE DecStr(_)
DecStr(n) == IF n < 10 THEN <<DigitChars[n + 1]>>
             ELSE DecStr(n \div 10) \o <<DigitChars[(n % 10) + 1]>>

RECURSIVE HexStr(_)
HexStr(n) == IF n < 16 THEN <<HexChars[n + 1]>>
             ELSE HexStr(n \div 16) \o <<HexChars[(n % 16) + 1]>>

(***************************************************************************)
(* Address text, as the resolver and the URL parser print it               *)
(***************************************************************************)
\* dotted decimal of four octets (dns.resolve4 answers)
Fmt4(ip) == DecStr(ip[1]) \o <<".">> \o DecStr(ip[2]) \o <<".">> \o
            DecStr(ip[3]) \o <<".">> \o DecStr(ip[4])

RECURSIVE ZeroRun(_, _)
ZeroRun(h, i) == IF i > Len(h) \/ h[i] # 0 THEN 0 ELSE 1 + ZeroRun(h, i + 1)

RECURSIVE JoinHex(_, _, _)
JoinHex(h, i, j) ==
    IF i > j THEN <<>>
    ELSE HexStr(h[i]) \o (IF i < j THEN <<":">> \o JoinHex(h, i + 1, j) ELSE <<>>)

\* compressed lower-case text of eight hextets (dns.resolve6 answers, and the
\* host of a parsed URL without its brackets): the leftmost longest run of two
\* or more zero groups becomes "::"
Fmt6(h) ==
    LET best == CHOOSE i \in 1..8 :
                    /\ \A j \in 1..8 : ZeroRun(h, j) <= ZeroRun(h, i)
                    /\ \A j \in 1..(i - 1) : ZeroRun(h, j) < ZeroRun(h, i)
        len == ZeroRun(h, best)
    IN  IF len < 2 THEN JoinHex(h, 1, 8)
        ELSE JoinHex(h, 1, best - 1) \o <<":", ":">> \o JoinHex(h, best + len, 8)

(***************************************************************************)
(* scraper.ts: SSRF guard                                                  *)
(***************************************************************************)
\* one truth value per regular expression of PRIVATE_IP_PATTERNS, in order
PRIVATE_IP_PATTERNS(ip) ==
    << StartsWith(ip, <<"1","0",".">>),                               \* /^10\./
       /\ StartsWith(ip, <<"1","7","2",".">>)       \* /^172\.(1[6-9]|2[0-9]|3[01])\./
       /\ \/ At(ip, 5) = "1" /\ InClass(At(ip, 6), 6, 9)
          \/ At(ip, 5) = "2" /\ InClass(At(ip, 6), 0, 9)
          \/ At(ip, 5) = "3" /\ InClass(At(ip, 6), 0, 1)
       /\ At(ip, 7) = ".",
       StartsWith(ip, <<"1","9","2",".","1","6","8",".">>),           \* /^192\.168\./
       StartsWith(ip, <<"1","6","9",".","2","5","4",".">>),           \* /^169\.254\./
       StartsWith(ip, <<"1","2","7",".">>),                           \* /^127\./
       StartsWith(ip, <<"0",".">>),                                   \* /^0\./
       /\ StartsWith(ip, <<"1","0","0",".">>)  \* /^100\.(6[4-9]|[7-9][0-9]|1[0-2][0-7])\./
       /\ \/ At(ip, 5) = "6" /\ InClass(At(ip, 6), 4, 9) /\ At(ip, 7) = "."
          \/ InClass(At(ip, 5), 7, 9) /\ InClass(At(ip, 6), 0, 9) /\ At(ip, 7) = "."
          \/ /\ At(ip, 5) = "1" /\ InClass(At(ip, 6), 0, 2)
             /\ InClass(At(ip, 7), 0, 7) /\ At(ip, 8) = ".",
       /\ StartsWith(ip, <<"1","9","8",".","1">>)                     \* /^198\.1[89]\./
       /\ InClass(At(ip, 6), 8, 9) /\ At(ip, 7) = ".",
       ip = <<":", ":", "1">>,                                        \* /^::1$/
       StartsWith(ToLowerCase(ip), <<"f","c">>),                      \* /^fc/i
       StartsWith(ToLowerCase(ip), <<"f","d">>),                      \* /^fd/i
       StartsWith(ToLowerCase(ip), <<"f","e","8","0",":">>) >>        \* /^fe80:/i

isPrivateIP(ip) ==
    LET tests == PRIVATE_IP_PATTERNS(ip)
    IN  \E i \in DOMAIN tests : tests[i]

BLOCKED_HOSTNAMES ==
    { <<"l","o","c","a","l","h","o","s","t">>,
      <<"1","2","7",".","0",".","0",".","1">>,
      <<":",":","1">>,
      <<"0",".","0",".","0",".","0">>,
      <<"m","e","t","a","d","a","t","a",".","g","o","o","g","l","e",".","i","n","t","e","r","n","a","l">>,
      <<"m","e","t","a","d","a","t","a",".","g","o","o","g","l","e",".","c","l","o","u","d">> }

\* one truth value per regular expression of BLOCKED_DOMAIN_PATTERNS, in order
BLOCKED_DOMAIN_PATTERNS(h) ==
    << h = <<"1","6","9",".","2","5","4",".","1","6","9",".","2","5","4">>,
       StartsWith(ToLowerCase(h), <<"m","e","t","a","d","a","t","a",".">>),
       EndsWith(ToLowerCase(h), <<".","i","n","t","e","r","n","a","l">>),
       EndsWith(ToLowerCase(h), <<".","l","o","c","a","l">>) >>

isBlockedHostname(hostname) ==
    LET lowerHostname == ToLowerCase(hostname)
    IN  \/ lowerHostname \in BLOCKED_HOSTNAMES
        \/ LET tests == BLOCKED_DOMAIN_PATTERNS(lowerHostname)
           IN  \E i \in DOMAIN tests : tests[i]

(***************************************************************************)
(* new URL(url): scheme, host and port of an absolute URL.  The inputs of  *)
(* the model carry no credentials and write addresses in canonical form,   *)
(* so the host is the text between the slashes and the port or path, in    *)
(* lower case; an IPv6 literal keeps its brackets.                         *)
(***************************************************************************)
RECURSIVE SkipSlashes(_, _)
SkipSlashes(s, i) == IF At(s, i) = "/" THEN SkipSlashes(s, i + 1) ELSE i

LetterChars == { LowerChars[i] : i \in DOMAIN LowerChars }

SpecialSchemes == { <<"h","t","t","p">>, <<"h","t","t","p","s">>, <<"f","t","p">> }

DefaultPort(scheme) ==
    IF scheme = <<"h","t","t","p">> THEN <<"8","0">>
    ELSE IF scheme = <<"h","t","t","p","s">> THEN <<"4","4","3">>
    ELSE IF scheme = <<"f","t","p">> THEN <<"2","1">>
    ELSE <<>>

ParseURL(url) ==
    LET colon     == IndexOfAny(url, {":"}, 1)
        scheme    == ToLowerCase(SubSeq(url, 1, colon - 1))
        hostStart == SkipSlashes(url, colon + 1)
        hostEnd   == IF At(url, hostStart) = "["
                     THEN IndexOfAny(url, {"]"}, hostStart) + 1
                     ELSE IndexOfAny(url, {":", "/", "?", "#"}, hostStart)
        authEnd   == IndexOfAny(url, {"/", "?", "#"}, hostEnd)
        \* a scheme that is not special has a host only after "//"
        opaque    == scheme \notin SpecialSchemes /\ SubSeq(url, colon + 1, colon + 2) # <<"/","/">>
        host      == IF opaque THEN <<>> ELSE ToLowerCase(SubSeq(url, hostStart, hostEnd - 1))
        rawPort   == IF At(url, hostEnd) = ":" THEN SubSeq(url, hostEnd + 1, authEnd - 1) ELSE <<>>
        wellFormed ==
            /\ colon <= Len(url)
            /\ colon > 1
            /\ At(scheme, 1) \in LetterChars
            /\ scheme \in SpecialSchemes => host # <<>>
            /\ \A i \in DOMAIN rawPort : IsDigit(rawPort[i])
    IN  IF wellFormed
        THEN [ok |-> TRUE, protocol |-> scheme \o <<":">>, hostname |-> host,
              port |-> IF rawPort = DefaultPort(scheme) THEN <<>> ELSE rawPort]
        ELSE [ok |-> FALSE, protocol |-> <<>>, hostname |-> <<>>, port |-> <<>>]

HttpProtocols == { <<"h","t","t","p",":">>, <<"h","t","t","p","s",":">> }

(***************************************************************************)
(* validateUrlSecurity.  dns4 and dns6 are the outcomes of dns.resolve4    *)
(* and dns.resolve6 for the host: a rejected promise, or the answers as    *)
(* text.  The result is "ok" or the error thrown.                          *)
(***************************************************************************)
DnsFailure == [rejected |-> TRUE, addrs |-> <<>>]

DnsAnswer(addrs) == [rejected |-> FALSE, addrs |-> addrs]

\* the messages that contain the words tested by the catch block (line 619)
NotPermittedMessages == {"BlockedHost", "PrivateIP", "ResolvedAddressBlocked"}

\* the catch block of the DNS step: only a block-rule error is thrown again
DnsCatch(err) == IF err \in NotPermittedMessages THEN err ELSE "ok"

\* validateUrlSecurity without the .catch(() => []) of the two resolutions and
\* with a catch block that throws every error again
validateUrlSecurityDnsStrict(url, dns4, dns6) ==
    LET parsed   == ParseURL(url)
        hostname == parsed.hostname
    IN  IF ~parsed.ok THEN "InvalidUrl"
        ELSE IF parsed.protocol \notin HttpProtocols THEN "BadProtocol"
        ELSE IF hostname = <<>> THEN "NoHostname"
        ELSE IF isBlockedHostname(hostname) THEN "BlockedHost"
        ELSE IF isPrivateIP(hostname) THEN "PrivateIP"
        ELSE IF dns4.rejected THEN "DnsError"
        ELSE IF \E i \in DOMAIN dns4.addrs : isPrivateIP(dns4.addrs[i])
             THEN "ResolvedAddressBlocked"
        ELSE IF dns6.rejected THEN "DnsError"
        ELSE IF \E i \in DOMAIN dns6.addrs : isPrivateIP(dns6.addrs[i])
             THEN "ResolvedAddressBlocked"
        ELSE "ok"

\* validateUrlSecurity without the protocol check of lines 578-580
validateUrlSecurityAnyProtocol(url, dns4, dns6) ==
    LET parsed        == ParseURL(url)
        hostname      == parsed.hostname
        addresses     == IF dns4.rejected THEN <<>> ELSE dns4.addrs
        ipv6Addresses == IF dns6.rejected THEN <<>> ELSE dns6.addrs
    IN  IF ~parsed.ok THEN "InvalidUrl"
        ELSE IF hostname = <<>> THEN "NoHostname"
        ELSE IF isBlockedHostname(hostname) THEN "BlockedHost"
        ELSE IF isPrivateIP(hostname) THEN "PrivateIP"
        ELSE IF \E i \in DOMAIN addresses : isPrivateIP(addresses[i])
             THEN DnsCatch("ResolvedAddressBlocked")
        ELSE IF \E i \in DOMAIN ipv6Addresses : isPrivateIP(ipv6Addresses[i])
             THEN DnsCatch("ResolvedAddressBlocked")
        ELSE "ok"

validateUrlSecurity(url, dns4, dns6) ==
    LET parsed        == ParseURL(url)
        hostname      == parsed.hostname
        addresses     == IF dns4.rejected THEN <<>> ELSE dns4.addrs
        ipv6Addresses == IF dns6.rejected THEN <<>> ELSE dns6.addrs
    IN  IF ~parsed.ok THEN "InvalidUrl"
        ELSE IF parsed.protocol \notin HttpProtocols THEN "BadProtocol"
        ELSE IF hostname = <<>> THEN "NoHostname"
        ELSE IF isBlockedHostname(hostname) THEN "BlockedHost"
        ELSE IF isPrivateIP(hostname) THEN "PrivateIP"
        ELSE IF \E i \in DOMAIN addresses : isPrivateIP(addresses[i])
             THEN DnsCatch("ResolvedAddressBlocked")
        ELSE IF \E i \in DOMAIN ipv6Addresses : isPrivateIP(ipv6Addresses[i])
             THEN DnsCatch("ResolvedAddressBlocked")
        ELSE "ok"

(***************************************************************************)
(* Inputs of the pipeline: request URLs, and the pages the sites serve.    *)
(***************************************************************************)
UrlArticle == <<"h","t","t","p","s",":","/","/","e","x",".","c","o","m","/","a">>

UrlLocalhost == <<"h","t","t","p",":","/","/","l","o","c","a","l","h","o","s","t",":","4","3","2","1">>

UrlFtp == <<"f","t","p",":","/","/","e","x",".","c","o","m">>

ParaAlpha == "Alpha paragraph: long enough to count as body."

ParaBeta == "Beta paragraph: also long enough to be kept."

ParaGamma == "Gamma paragraph: the rewritten page content."

ParaShort == "Too short."

\* a page is the sequence of its <p> elements in document order; inContainer:
\* the element lies under article, main, section, .content, .post, .entry or .body
Para(text, inContainer) == [text |-> text, inContainer |-> inContainer]

PageOriginal == << Para(ParaAlpha, TRUE), Para(ParaShort, TRUE), Para(ParaBeta, TRUE) >>

PageRepeated == << Para(ParaAlpha, TRUE), Para(ParaBeta, TRUE), Para(ParaAlpha, TRUE),
                   Para(ParaGamma, FALSE) >>

PageRewritten == << Para(ParaAlpha, FALSE), Para(ParaGamma, FALSE) >>

PipelineUrls == {UrlArticle, UrlLocalhost, UrlFtp}

Pages == {PageOriginal, PageRepeated, PageRewritten}

(***************************************************************************)
(* scraper.ts: bodyText of the digest (lines 811-830)                      *)
(***************************************************************************)
MinParagraphLen == 30

\* the texts of the paragraphs longer than 30 characters, in document order;
\* inContainerOnly restricts them to the paragraphs under a content container
RECURSIVE LongParagraphs(_, _, _)
LongParagraphs(s, inContainerOnly, i) ==
    IF i > Len(s) THEN <<>>
    ELSE (IF /\ s[i].text # "" /\ Len(s[i].text) > MinParagraphLen
             /\ (inContainerOnly => s[i].inContainer)
          THEN <<s[i].text>> ELSE <<>>) \o LongParagraphs(s, inContainerOnly, i + 1)

\* [...new Set(xs)]: first occurrences, in order
RECURSIVE Dedupe(_)
Dedupe(xs) ==
    IF xs = <<>> THEN <<>>
    ELSE LET front == Dedupe(SubSeq(xs, 1, Len(xs) - 1))
             last  == xs[Len(xs)]
         IN  IF \E i \in DOMAIN front : front[i] = last THEN front ELSE Append(front, last)

RECURSIVE Join(_, _)
Join(xs, sep) ==
    IF xs = <<>> THEN ""
    ELSE IF Len(xs) = 1 THEN xs[1]
    ELSE xs[1] \o sep \o Join(Tail(xs), sep)

MaxBodyTextLen == 5000

\* SliceOne: slice(0, n) keeping one element too many
SliceOne(xs, n) == IF Len(xs) <= n + 1 THEN xs ELSE SubSeq(xs, 1, n + 1)

\* xs.slice(0, n), of a string or of an array
Slice(xs, n) == IF Len(xs) <= n THEN xs ELSE SubSeq(xs, 1, n)

ExtractBodyText(page) ==
    LET scoped         == LongParagraphs(page, TRUE, 1)
        bodyParagraphs == IF Len(scoped) = 0 THEN LongParagraphs(page, FALSE, 1) ELSE scoped
    IN  Slice(Join(Dedupe(bodyParagraphs), "\n\n"), MaxBodyTextLen)

(***************************************************************************)
(* supabase-client: fingerprints.  createHash('sha256')...digest('hex') is *)
(* tabulated on the texts of the model, with the digests SHA-256 gives.    *)
(***************************************************************************)
\* UrlArticle with its last character changed
UrlArticleB == <<"h","t","t","p","s",":","/","/","e","x",".","c","o","m","/","b">>

\* texts of one to four letters: pairs that differ in one character, in case
\* only, and pairs the 31-multiplier rolling hash maps to the same value
HashTexts == { "", "a", "b", "Aa", "BB", "AaAa", "AaBB", "BBAa", "BBBB", "abc", "abd", "Abc" }

Sha256OfUrl ==
    { << UrlArticleB, "ff0bd40c6041e501729e64bfe022607800913405469f7e85061f3580731a863d" >>,
      << UrlFtp, "49aacb9325a2a18c8fc7febd6ab076b5bb6dc5bc87ce2dd66d27cb3e256a35e3" >>,
      << UrlArticle, "93f1f24c9eb2f35f1f352cf665b281e4e2e5b4f0dfa15869f8e13bf5ef31dc63" >>,
      << UrlLocalhost, "074e81a8d16d50761303babda8d1aab25aa9a2b3b7e16c9e7ccd5b9b2fc31248" >> }

Sha256OfText ==
    { << "a", "ca978112ca1bbdcafac231b39a23dc4da786eff8147c4e72b9807785afee48bb" >>,
      << "b", "3e23e8160039594a33894f6564e1b1348bbd7a0088d42c4acb73eeaed59c009d" >>,
      << "Aa", "81acaafba961bb831ec40eb965155e3486392c60cfb8c75150beaf2caffc244a" >>,
      << "BB", "fc686c314491e1f68bf1899fc54b2327353c44dd1ab4ed56538ef623edd1e866" >>,
      << "AaAa", "81ade6f4f3c9f5d447f8b5b646da9ac9a2e6119cfde90504f156a8d93c8963a5" >>,
      << "AaBB", "4566469926c69aa1a2d5dea7e2755cc5e5e1c481e922c8f74a0414eeade0f799" >>,
      << "BBAa", "cd944cd574d70dde48477fc878e36ce2d3352815c98f50c699b246cdac4112a0" >>,
      << "BBBB", "4a8d8134f29b0b7b60c126f5532bc9f5d9bb73037373cf6fb872d81f1dcefdfd" >>,
      << "abc", "ba7816bf8f01cfea414140de5dae2223b00361a396177a9cb410ff61f20015ad" >>,
      << "abd", "a52d159f262b2c6ddb724a61840befc36eb30c88877a4030b65cbe86298449c9" >>,
      << "Abc", "06d90109c8cce34ec0c776950465421e176f08b831a938b3c6e76cb7bee8790b" >>,
      << "", "e3b0c44298fc1c149afbf4c8996fb92427ae41e4649b934ca495991b7852b855" >>,
      << "Alpha paragraph: long enough to count as body.\n\nBeta paragraph: also long enough to be kept.",
         "d5631bce56a74a0613825015a765b8f6d8395e3e928cb7a21ca8409e3e9fdf9d" >>,
      << "Alpha paragraph: long enough to count as body.\n\nGamma paragraph: the rewritten page content.",
         "2789fb13e4bc45332ba554a97c439fa37c34cc2796e1632e2f65f7c94ac9cf6e" >>,
      << "Alpha paragraph: long enough to count as body.",
         "b49a017df4aad47f1d38ec27d4c75d3cecf51ef691a50d23e7b7dce5d3534552" >> }

\* digest('hex') of the table that holds the text
Sha256Hex(table, text) == (CHOOSE p \in table : p[1] = text)[2]

generateUrlHash(url) == Sha256Hex(Sha256OfUrl, url)

\* String.prototype.charCodeAt for letters
CharCode(c) ==
    IF \E i \in DOMAIN UpperChars : UpperChars[i] = c
    THEN 64 + (CHOOSE i \in DOMAIN UpperChars : UpperChars[i] = c)
    ELSE 96 + (CHOOSE i \in DOMAIN LowerChars : LowerChars[i] = c)

\* the rolling hash ((hash << 5) - hash) + char, printed as Math.abs(hash).toString(16);
\* on texts of at most four letters the value stays below 2^31 and "hash & hash"
\* leaves it as it is
generateContentHashRolling(content) ==
    LET F[i \in 0..Len(content)] ==
            IF i = 0 THEN 0
            ELSE (F[i - 1] * 32 - F[i - 1]) + CharCode(SubSeq(content, i, i))
    IN  HexStr(F[Len(content)])

generateContentHash(content) == Sha256Hex(Sha256OfText, content)

(***************************************************************************)
(* The analysis_results table and its two queries                          *)
(***************************************************************************)
AI_MODELS == [free |-> "claude-haiku-4-5-20251001", pro |-> "claude-sonnet-4-5-20250929"]

\* requiredModel left out (undefined), falsy in "if (requiredModel)"
Undefined == ""

\* the null of maybeSingle(): no row
NullRow == [url_hash |-> "", content_hash |-> "", language |-> "", model |-> "",
            overall_score |-> 0, created_at |-> 0]

\* MatchingRows without the filter on the model
MatchingRowsAnyModel(rows, urlHash, contentHash, language, requiredModel) ==
    { i \in DOMAIN rows :
        /\ rows[i].url_hash = urlHash
        /\ rows[i].content_hash = contentHash
        /\ rows[i].language = language }

\* MatchingRows without the filter on the content fingerprint
MatchingRowsAnyContent(rows, urlHash, contentHash, language, requiredModel) ==
    { i \in DOMAIN rows :
        /\ rows[i].url_hash = urlHash
        /\ rows[i].language = language
        /\ requiredModel # Undefined => rows[i].model = requiredModel }

\* the rows the filters of getCachedResult keep
MatchingRows(rows, urlHash, contentHash, language, requiredModel) ==
    { i \in DOMAIN rows :
        /\ rows[i].url_hash = urlHash
        /\ rows[i].content_hash = contentHash
        /\ rows[i].language = language
        /\ requiredModel # Undefined => rows[i].model = requiredModel }

\* getCachedResult ordering by created_at ascending
getCachedResultOldest(rows, urlHash, contentHash, language, requiredModel, queryError) ==
    LET matching == { i \in DOMAIN rows :
                        /\ rows[i].url_hash = urlHash
                        /\ rows[i].content_hash = contentHash
                        /\ rows[i].language = language
                        /\ requiredModel # Undefined => rows[i].model = requiredModel }
    IN  IF queryError \/ matching = {} THEN NullRow
        ELSE rows[CHOOSE i \in matching :
                    \A j \in matching : rows[j].created_at >= rows[i].created_at]

\* getCachedResult returning the data of a query that reported an error
getCachedResultDespiteError(rows, urlHash, contentHash, language, requiredModel, queryError) ==
    LET matching == { i \in DOMAIN rows :
                        /\ rows[i].url_hash = urlHash
                        /\ rows[i].content_hash = contentHash
                        /\ rows[i].language = language
                        /\ requiredModel # Undefined => rows[i].model = requiredModel }
    IN  IF matching = {} THEN NullRow
        ELSE rows[CHOOSE i \in matching :
                    \A j \in matching : rows[j].created_at <= rows[i].created_at]

\* order('created_at', {ascending: false}).limit(1).maybeSingle(); a query that
\* returns an error yields null
getCachedResult(rows, urlHash, contentHash, language, requiredModel, queryError) ==
    LET matching == MatchingRows(rows, urlHash, contentHash, language, requiredModel)
    IN  IF queryError \/ matching = {} THEN NullRow
        ELSE rows[CHOOSE i \in matching :
                    \A j \in matching : rows[j].created_at <= rows[i].created_at]

\* an upsert on the key instead of an insert
InsertRowUpsert(rows, urlHash, contentHash, overallScore, language, model, now) ==
    LET row  == [url_hash |-> urlHash, content_hash |-> contentHash,
                 language |-> language, model |-> model,
                 overall_score |-> overallScore, created_at |-> now]
        same == { i \in DOMAIN rows :
                    /\ rows[i].url_hash = urlHash /\ rows[i].content_hash = contentHash
                    /\ rows[i].language = language /\ rows[i].model = model }
    IN  IF same = {} THEN Append(rows, row)
        ELSE [i \in DOMAIN rows |-> IF i \in same THEN row ELSE rows[i]]

\* the table after saveCachedResult's insert; created_at defaults to now()
InsertRow(rows, urlHash, contentHash, overallScore, language, model, now) ==
    Append(rows, [url_hash |-> urlHash, content_hash |-> contentHash,
                  language |-> language, model |-> model,
                  overall_score |-> overallScore, created_at |-> now])

(***************************************************************************)
(* State                                                                   *)
(***************************************************************************)
VARIABLES
    profiles,          \* the profiles table: user id -> row
    analysis_results,  \* the analysis_results table, in insertion order
    clock,             \* database time of the last insert (created_at)
    today,             \* wall clock, in days
    req,               \* the diagnose requests in flight: request -> its locals
    started,           \* number of requests received so far
    call               \* a library function called on its own: arguments and result

vars == <<profiles, analysis_results, clock, today, req, started, call>>

Requests == {"r1", "r2"}

Users == {"u1", "u2"}

Languages == {"ja", "en"}

\* requests received in one run of the model
MaxRequests == 3

\* last day of the wall clock
MaxDay == 31

\* days that pass in one step of the wall clock
TickDays == 31

\* 30 * 24 * 60 * 60 * 1000 ms, in days
ResetPeriodDays == 30

InitialCredits == 3

NullProfile == [exists |-> FALSE, is_premium |-> FALSE, free_credits |-> 0, credits_reset_at |-> -1]

\* no library function is called on its own
NoCall == [fn |-> "none"]

\* the locals of POST (and of the functions it awaits) before a request arrives
IdleRequest ==
    [ pc |-> "idle", url |-> <<>>, language |-> "", token |-> "",
      userId |-> "", isPremium |-> FALSE, freeCredits |-> InitialCredits,
      caller |-> "", profile |-> NullProfile,
      page |-> <<>>, bodyText |-> "", pending |-> "",
      urlHash |-> "", contentHash |-> "", requiredModel |-> Undefined,
      cachedResult |-> NullRow, geo_score |-> 0,
      status |-> 0, kind |-> "", cached |-> FALSE, free_credits |-> 0,
      \* history of the request, not read by the code
      stages |-> <<>>, completed |-> {}, browser |-> "none", launches |-> 0,
      closes |-> 0, navigations |-> 0, oracleModel |-> "", inserts |-> 0,
      storeOutcome |-> "", consumeCalls |-> 0, decrements |-> 0,
      header |-> [bearer |-> FALSE, token |-> ""] ]

\* the profiles table with a free user holding c credits and a premium user
ProfilesWith(c) ==
    [u \in Users |->
        [exists |-> TRUE, is_premium |-> (u = "u2"),
         free_credits |-> IF u = "u1" THEN c ELSE InitialCredits,
         credits_reset_at |-> 0]]

\* the tables and the requests before anything runs, the free user holding c credits
InitStore(c) ==
    /\ profiles = ProfilesWith(c)
    /\ analysis_results = <<>>
    /\ clock = 0
    /\ today = 0
    /\ req = [r \in Requests |-> IdleRequest]
    /\ started = 0

Init == (\E c \in 0..InitialCredits : InitStore(c)) /\ call = NoCall

\* the response is sent: the handler returns
Respond(q, status, kind) == [q EXCEPT !.pc = "done", !.status = status, !.kind = kind]

\* a stage of the pipeline starts
Begin(q, stage) == [q EXCEPT !.stages = Append(@, stage)]

\* a stage of the pipeline completes successfully
Complete(q, stage) == [q EXCEPT !.completed = @ \cup {stage}]

(***************************************************************************)
(* diagnose.ts POST, lines 105-161 and 196-205: body, URL and key checks,  *)
(* then the Authorization header                                           *)
(***************************************************************************)
\* the identity provider: the user a bearer token belongs to, "" if none
TokenUser(token) == IF token = "tok_u1" THEN "u1" ELSE IF token = "tok_u2" THEN "u2" ELSE ""

Tokens == {"tok_u1", "tok_u2", "tok_bad"}

\* request bodies: unparseable JSON, a body without url, or a url and a language
Bodies ==
    { [json |-> FALSE, hasUrl |-> FALSE, url |-> <<>>, language |-> "ja"],
      [json |-> TRUE, hasUrl |-> FALSE, url |-> <<>>, language |-> "en"] }
    \cup { [json |-> TRUE, hasUrl |-> TRUE, url |-> u, language |-> l] :
             u \in PipelineUrls, l \in Languages }

\* the Authorization header: absent (or not a bearer token), or a bearer token
Authorizations ==
    { [bearer |-> FALSE, token |-> ""] } \cup { [bearer |-> TRUE, token |-> t] : t \in Tokens }

\* new URL(url) of the request URLs, evaluated once
ParsedUrl == [u \in PipelineUrls \cup {<<>>} |-> ParseURL(u)]

\* lines 105-161 and 196-199 on the locals q0 of a request that arrives
Arrival(q0, body, authorization, apiKey) ==
    LET q1     == [q0 EXCEPT !.header = authorization]
        q      == [q1 EXCEPT !.url = body.url, !.language = body.language]
        parsed == ParsedUrl[body.url]
    IN  IF ~body.json THEN Respond(q1, 500, "Internal")
        ELSE IF ~body.hasUrl THEN Respond(q, 400, "EnterUrl")
        ELSE IF ~parsed.ok \/ parsed.protocol \notin HttpProtocols
             THEN Respond(q, 400, "InvalidUrl")
        ELSE IF ~apiKey THEN Respond(q, 500, "ApiConfig")
        ELSE IF ~authorization.bearer THEN Respond(q, 401, "LoginRequired")
        ELSE [q EXCEPT !.pc = "getUser", !.token = authorization.token]

Receive(r, body, authorization, apiKey) ==
    /\ req[r].pc = "idle"
    /\ started < MaxRequests
    /\ started' = started + 1
    /\ req' = [req EXCEPT ![r] = Arrival(req[r], body, authorization, apiKey)]
    /\ UNCHANGED <<profiles, analysis_results, clock, today, call>>

\* GetUser going on to the scrape when the token belongs to no user
GetUserAllowsAnonymous(r) ==
    /\ req[r].pc = "getUser"
    /\ LET q    == req[r]
           user == TokenUser(q.token)
       IN  req' = [req EXCEPT ![r] =
             IF user = "" THEN [q EXCEPT !.pc = "validate"]
             ELSE [q EXCEPT !.pc = "profileRead", !.userId = user, !.caller = "POST"]]
    /\ UNCHANGED <<profiles, analysis_results, clock, today, started, call>>

\* authClient.auth.getUser() resolves (lines 164-170, 200-205)
GetUser(r) ==
    /\ req[r].pc = "getUser"
    /\ LET q    == req[r]
           user == TokenUser(q.token)
       IN  req' = [req EXCEPT ![r] =
             IF user = "" THEN Respond(q, 401, "LoginRequired")
             ELSE [q EXCEPT !.pc = "profileRead", !.userId = user, !.caller = "POST"]]
    /\ UNCHANGED <<profiles, analysis_results, clock, today, started, call>>

(***************************************************************************)
(* diagnose.ts POST, lines 325-364: the 200 response of a cache miss       *)
(***************************************************************************)
Finish(q, consumed) ==
    [Respond(q, 200, "Ok") EXCEPT
        !.free_credits = IF consumed THEN q.freeCredits - 1 ELSE q.freeCredits,
        !.completed = IF consumed THEN @ \cup {"consume"} ELSE @]

(***************************************************************************)
(* supabase-admin.ts checkAndResetCredits, called by POST (line 170) and   *)
(* by consumeCredit (line 76), and what each caller does with its result   *)
(***************************************************************************)
ResetDue(profile, day) ==
    \/ profile.credits_reset_at = -1
    \/ day - profile.credits_reset_at > ResetPeriodDays

\* POST, lines 172-205
AfterCheckInPost(q, profile) ==
    IF profile.exists
    THEN LET q1 == [q EXCEPT !.isPremium = profile.is_premium,
                             !.freeCredits = profile.free_credits]
         IN  IF ~profile.is_premium /\ profile.free_credits <= 0
             THEN Respond(q1, 403, "CreditsExhausted")
             ELSE [q1 EXCEPT !.pc = "validate"]
    ELSE [q EXCEPT !.pc = "validate"]

\* consumeCredit without the check of free_credits <= 0
AfterCheckInConsumeNoFloor(q, profile) ==
    IF ~profile.exists THEN Finish(q, FALSE)
    ELSE IF profile.is_premium THEN Finish(q, TRUE)
    ELSE [q EXCEPT !.pc = "creditUpdate", !.profile = profile]

\* consumeCredit, lines 77-92
AfterCheckInConsume(q, profile) ==
    IF ~profile.exists THEN Finish(q, FALSE)
    ELSE IF profile.is_premium THEN Finish(q, TRUE)
    ELSE IF profile.free_credits <= 0 THEN Finish(q, FALSE)
    ELSE [q EXCEPT !.pc = "creditUpdate", !.profile = profile]

AfterCheck(q, profile) ==
    LET q0 == [q EXCEPT !.profile = NullProfile]
    IN  IF q.caller = "POST" THEN AfterCheckInPost(q0, profile)
        ELSE AfterCheckInConsume(q0, profile)

\* the select of lines 33-42 resolves
ProfileRead(r, fetchError) ==
    /\ req[r].pc = "profileRead"
    /\ LET q       == req[r]
           row     == profiles[q.userId]
           profile == IF fetchError \/ ~row.exists THEN NullProfile ELSE row
       IN  req' = [req EXCEPT ![r] =
             IF ~profile.exists THEN AfterCheck(q, NullProfile)
             ELSE IF ResetDue(profile, today)
                  THEN [q EXCEPT !.pc = "profileReset", !.profile = profile]
             ELSE AfterCheck(q, profile)]
    /\ UNCHANGED <<profiles, analysis_results, clock, today, started, call>>

\* the update of lines 49-62 resolves
ProfileReset(r, updateError) ==
    /\ req[r].pc = "profileReset"
    /\ LET q     == req[r]
           reset == [profiles[q.userId] EXCEPT !.free_credits = InitialCredits,
                                               !.credits_reset_at = today]
       IN  IF updateError
           THEN /\ req' = [req EXCEPT ![r] = AfterCheck(q, q.profile)]
                /\ UNCHANGED profiles
           ELSE /\ req' = [req EXCEPT ![r] = AfterCheck(q, reset)]
                /\ profiles' = [profiles EXCEPT ![q.userId] = reset]
    /\ UNCHANGED <<analysis_results, clock, today, started, call>>

\* consumeCredit: the update of lines 89-99 resolves
CreditUpdate(r, updateError) ==
    /\ req[r].pc = "creditUpdate"
    /\ LET q  == req[r]
           q0 == [q EXCEPT !.profile = NullProfile]
       IN  IF updateError
           THEN /\ req' = [req EXCEPT ![r] = Finish(q0, FALSE)]
                /\ UNCHANGED profiles
           ELSE /\ req' = [req EXCEPT ![r] =
                            Finish([q0 EXCEPT !.decrements = @ + 1], TRUE)]
                /\ profiles' = [profiles EXCEPT ![q.userId].free_credits =
                                                   q.profile.free_credits - 1]
    /\ UNCHANGED <<analysis_results, clock, today, started, call>>

(***************************************************************************)
(* scraper.ts scrapeUrl, as POST calls it (diagnose.ts lines 207-218)      *)
(***************************************************************************)
PublicV4 == <<93, 184, 216, 34>>

PrivateV4 == <<10, 0, 0, 5>>

PublicV6 == <<9734, 10240, 544, 1, 584, 6291, 9672, 6470>>

\* what the resolver may answer while a request of the pipeline is validated
PipelineDns4 == { DnsFailure, DnsAnswer(<<Fmt4(PublicV4)>>),
                  DnsAnswer(<<Fmt4(PublicV4), Fmt4(PrivateV4)>>) }

PipelineDns6 == { DnsFailure, DnsAnswer(<<Fmt6(PublicV6)>>) }

\* the awaited calls between launch and extraction, and "none": no failure
RenderSteps == <<"newPage", "setViewport", "goto", "screenshot", "content">>

RenderFailures == {"none"} \cup { RenderSteps[i] : i \in DOMAIN RenderSteps }

\* step is reached when the first failing step is failAt
Reached(step, failAt) ==
    \/ failAt = "none"
    \/ \E i, j \in DOMAIN RenderSteps :
          RenderSteps[i] = step /\ RenderSteps[j] = failAt /\ i <= j

\* validateUrlSecurity on the inputs of the pipeline, evaluated once
Verdict == [u \in PipelineUrls, dns4 \in PipelineDns4, dns6 \in PipelineDns6 |->
              validateUrlSecurity(u, dns4, dns6)]

\* bodyText of the pages of the model, evaluated once
BodyTextOf == [page \in Pages |-> ExtractBodyText(page)]

\* AfterValidate launching the browser whatever the verdict
AfterValidateLaunchesAnyway(q, verdict) ==
    IF verdict = "ok" THEN [Complete(q, "validate") EXCEPT !.pc = "launch"]
    ELSE [q EXCEPT !.pc = "launch"]

\* scrapeUrl line 678 and POST lines 212-218: an error of validateUrlSecurity
\* leaves scrapeUrl before the browser is launched and is answered with 400
AfterValidate(q, verdict) ==
    IF verdict = "ok" THEN [Complete(q, "validate") EXCEPT !.pc = "launch"]
    ELSE Respond(q, 400, "FetchFailed")

\* line 678: validateUrlSecurity returns or throws
Validate(r, dns4, dns6) ==
    /\ req[r].pc = "validate"
    /\ req' = [req EXCEPT ![r] =
                 AfterValidate(Begin(req[r], "validate"), Verdict[req[r].url, dns4, dns6])]
    /\ UNCHANGED <<profiles, analysis_results, clock, today, started, call>>

\* line 698: puppeteer.launch resolves or rejects
Launch(r, launched) ==
    /\ req[r].pc = "launch"
    /\ LET q == Begin(req[r], "render")
       IN  req' = [req EXCEPT ![r] =
             IF launched
             THEN [q EXCEPT !.pc = "render", !.browser = "open", !.launches = @ + 1]
             ELSE Respond(q, 400, "FetchFailed")]
    /\ UNCHANGED <<profiles, analysis_results, clock, today, started, call>>

\* Render without the try/finally: an error leaves scrapeUrl at once
RenderWithoutFinally(r, failAt, page) ==
    /\ req[r].pc = "render"
    /\ LET q == [req[r] EXCEPT !.navigations = IF Reached("goto", failAt) THEN @ + 1 ELSE @]
       IN  req' = [req EXCEPT ![r] =
             IF failAt = "none"
             THEN [Complete(q, "render") EXCEPT !.pc = "extract", !.page = page]
             ELSE Respond(q, 400, "FetchFailed")]
    /\ UNCHANGED <<profiles, analysis_results, clock, today, started, call>>

\* lines 700-724: the page is opened, loaded, captured and read, up to the
\* first call that throws
Render(r, failAt, page) ==
    /\ req[r].pc = "render"
    /\ LET q == [req[r] EXCEPT !.navigations = IF Reached("goto", failAt) THEN @ + 1 ELSE @]
       IN  req' = [req EXCEPT ![r] =
             IF failAt = "none"
             THEN [Complete(q, "render") EXCEPT !.pc = "extract", !.page = page]
             ELSE [q EXCEPT !.pc = "close", !.pending = "error"]]
    /\ UNCHANGED <<profiles, analysis_results, clock, today, started, call>>

\* lines 725-938: the digest is built from the page, or the synchronous code
\* that builds it throws
Extract(r, threw) ==
    /\ req[r].pc = "extract"
    /\ LET q0 == Begin(req[r], "extract")
           q  == Complete(q0, "extract")
       IN  req' = [req EXCEPT ![r] =
             IF threw
             THEN [q0 EXCEPT !.pc = "close", !.pending = "error", !.page = <<>>]
             ELSE [q EXCEPT !.pc = "close", !.bodyText = BodyTextOf[q.page], !.page = <<>>]]
    /\ UNCHANGED <<profiles, analysis_results, clock, today, started, call>>

\* AfterClose with a finally block that swallows the error of the try block
AfterCloseSwallowsError(q) == [q EXCEPT !.pc = "fingerprint", !.pending = ""]

\* scrapeUrl after its finally block, and POST lines 211-218: the error of the
\* try block is thrown again and answered with 400, or the digest is returned
AfterClose(q) ==
    IF q.pending = "error"
    THEN Respond([q EXCEPT !.pending = ""], 400, "FetchFailed")
    ELSE [q EXCEPT !.pc = "fingerprint"]

\* lines 939-941: finally, browser.close()
Close(r) ==
    /\ req[r].pc = "close"
    /\ req' = [req EXCEPT ![r] =
                 AfterClose([req[r] EXCEPT !.browser = "closed", !.closes = @ + 1])]
    /\ UNCHANGED <<profiles, analysis_results, clock, today, started, call>>

(***************************************************************************)
(* diagnose.ts POST, lines 220-333: fingerprints, cache, oracle, store     *)
(***************************************************************************)
\* lines 221-228
Fingerprint(r) ==
    /\ req[r].pc = "fingerprint"
    /\ LET q == Complete(Begin(req[r], "fingerprint"), "fingerprint")
       IN  req' = [req EXCEPT ![r] =
             [q EXCEPT !.pc = "lookup",
                       !.urlHash = generateUrlHash(q.url),
                       !.contentHash = generateContentHash(q.bodyText),
                       !.requiredModel = IF q.isPremium THEN AI_MODELS.pro ELSE Undefined]]
    /\ UNCHANGED <<profiles, analysis_results, clock, today, started, call>>

\* AfterLookup without the early return of the cache hit
AfterLookupFallsThrough(q, cachedResult) ==
    IF cachedResult # NullRow
    THEN [q EXCEPT !.pc = "oracle", !.cachedResult = cachedResult, !.cached = TRUE]
    ELSE [q EXCEPT !.pc = "oracle"]

\* lines 231-249: a cached entry is returned at once, a miss goes on to the oracle
AfterLookup(q, cachedResult) ==
    IF cachedResult # NullRow
    THEN [Respond(q, 200, "Ok") EXCEPT !.cachedResult = cachedResult, !.cached = TRUE,
                                        !.geo_score = cachedResult.overall_score,
                                        !.free_credits = q.freeCredits]
    ELSE [q EXCEPT !.pc = "oracle"]

\* line 230: the query of getCachedResult resolves
Lookup(r, queryError) ==
    /\ req[r].pc = "lookup"
    /\ LET q0 == Begin(req[r], "lookup")
           q  == IF queryError THEN q0 ELSE Complete(q0, "lookup")
       IN  req' = [req EXCEPT ![r] =
             AfterLookup(q, getCachedResult(analysis_results, q.urlHash, q.contentHash,
                                            q.language, q.requiredModel, queryError))]
    /\ UNCHANGED <<profiles, analysis_results, clock, today, started, call>>

\* what the scoring oracle may do
OracleOutcomes == {"ok", "httpError", "unparseable"}

\* overall scores of the oracle's answers
OracleScores == {72}

\* Oracle going on with a default score when the call or the parse fails
OracleFailureFallsBack(r, outcome, score) ==
    /\ req[r].pc = "oracle"
    /\ LET q == [Begin(req[r], "oracle") EXCEPT
                    !.oracleModel = IF req[r].isPremium THEN AI_MODELS.pro ELSE AI_MODELS.free]
       IN  req' = [req EXCEPT ![r] =
             IF outcome = "ok"
             THEN [Complete(q, "oracle") EXCEPT !.pc = "store", !.geo_score = score]
             ELSE [q EXCEPT !.pc = "store", !.geo_score = 50]]
    /\ UNCHANGED <<profiles, analysis_results, clock, today, started, call>>

\* lines 256-302: callClaudeWithVision resolves or throws, parseJSON returns or throws
Oracle(r, outcome, score) ==
    /\ req[r].pc = "oracle"
    /\ LET q == [Begin(req[r], "oracle") EXCEPT
                    !.oracleModel = IF req[r].isPremium THEN AI_MODELS.pro ELSE AI_MODELS.free]
       IN  req' = [req EXCEPT ![r] =
             IF outcome = "ok"
             THEN [Complete(q, "oracle") EXCEPT !.pc = "store", !.geo_score = score]
             ELSE Respond(q, 500, "Internal")]
    /\ UNCHANGED <<profiles, analysis_results, clock, today, started, call>>

\* how the insert of saveCachedResult may end: stored, an error returned (logged
\* at line 130), or an exception (caught at line 321)
StoreOutcomes == {"ok", "error", "throw"}

\* AfterStore without the try/catch around saveCachedResult
AfterStoreUncaught(q, outcome) ==
    IF outcome = "throw" THEN Respond(q, 500, "Internal")
    ELSE IF q.userId # "" /\ ~q.isPremium
    THEN [Begin(q, "consume") EXCEPT !.pc = "profileRead", !.caller = "consumeCredit",
                                      !.consumeCalls = @ + 1]
    ELSE Finish(q, FALSE)

\* lines 320-333: whatever became of the insert, consumeCredit is called for a
\* free user and the response follows
AfterStore(q, outcome) ==
    IF q.userId # "" /\ ~q.isPremium
    THEN [Begin(q, "consume") EXCEPT !.pc = "profileRead", !.caller = "consumeCredit",
                                      !.consumeCalls = @ + 1]
    ELSE Finish(q, FALSE)

\* lines 304-328: saveCachedResult settles
Store(r, outcome) ==
    /\ req[r].pc = "store"
    /\ LET q0 == [Begin(req[r], "store") EXCEPT !.storeOutcome = outcome]
           q  == IF outcome = "ok"
                 THEN [Complete(q0, "store") EXCEPT !.inserts = @ + 1]
                 ELSE q0
           currentModel == IF q.isPremium THEN AI_MODELS.pro ELSE AI_MODELS.free
       IN  /\ req' = [req EXCEPT ![r] = AfterStore(q, outcome)]
           /\ IF outcome = "ok"
              THEN /\ analysis_results' = InsertRow(analysis_results, q.urlHash, q.contentHash,
                                                    q.geo_score, q.language, currentModel,
                                                    clock + 1)
                   /\ clock' = clock + 1
              ELSE UNCHANGED <<analysis_results, clock>>
    /\ UNCHANGED <<profiles, today, started, call>>

(***************************************************************************)
(* Environment                                                             *)
(***************************************************************************)
\* the handler has returned; its locals are gone
Recycle(r) ==
    /\ req[r].pc = "done"
    /\ req' = [req EXCEPT ![r] = IdleRequest]
    /\ UNCHANGED <<profiles, analysis_results, clock, today, started, call>>

\* time passes
Tick ==
    /\ today + TickDays <= MaxDay
    /\ today' = today + TickDays
    /\ UNCHANGED <<profiles, analysis_results, clock, req, started, call>>

\* one request at a time, with every input and every failure of a step
Sequential == {"r1"}

Next ==
    \/ \E r \in Sequential, body \in Bodies, authorization \in Authorizations,
          apiKey \in BOOLEAN : Receive(r, body, authorization, apiKey)
    \/ \E r \in Sequential : GetUser(r)
    \/ \E r \in Sequential, fetchError \in BOOLEAN : ProfileRead(r, fetchError)
    \/ \E r \in Sequential, updateError \in BOOLEAN : ProfileReset(r, updateError)
    \/ \E r \in Sequential, dns4 \in PipelineDns4, dns6 \in PipelineDns6 : Validate(r, dns4, dns6)
    \/ \E r \in Sequential, launched \in BOOLEAN : Launch(r, launched)
    \/ \E r \in Sequential, failAt \in RenderFailures, page \in Pages : Render(r, failAt, page)
    \/ \E r \in Sequential, threw \in BOOLEAN : Extract(r, threw)
    \/ \E r \in Sequential : Close(r)
    \/ \E r \in Sequential : Fingerprint(r)
    \/ \E r \in Sequential, queryError \in BOOLEAN : Lookup(r, queryError)
    \/ \E r \in Sequential, outcome \in OracleOutcomes, score \in OracleScores :
          Oracle(r, outcome, score)
    \/ \E r \in Sequential, outcome \in StoreOutcomes : Store(r, outcome)
    \/ \E r \in Sequential, updateError \in BOOLEAN : CreditUpdate(r, updateError)
    \/ \E r \in Sequential : Recycle(r)
    \/ Tick

Spec == Init /\ [][Next]_vars

(***************************************************************************)
(* Concurrent requests: every interleaving of the awaited steps of two     *)
(* requests for the same page, with the failures that touch the cache.     *)
(***************************************************************************)
ConcurrentBodies ==
    { [json |-> TRUE, hasUrl |-> TRUE, url |-> UrlArticle, language |-> "ja"] }

ConcurrentAuthorizations == { [bearer |-> TRUE, token |-> t] : t \in {"tok_u1", "tok_u2"} }

NextConcurrent ==
    \/ \E r \in Requests, body \in ConcurrentBodies, authorization \in ConcurrentAuthorizations :
          Receive(r, body, authorization, TRUE)
    \/ \E r \in Requests : GetUser(r)
    \/ \E r \in Requests : ProfileRead(r, FALSE)
    \/ \E r \in Requests : ProfileReset(r, FALSE)
    \/ \E r \in Requests : Validate(r, DnsAnswer(<<Fmt4(PublicV4)>>), DnsFailure)
    \/ \E r \in Requests : Launch(r, TRUE)
    \/ \E r \in Requests, page \in {PageOriginal, PageRewritten} : Render(r, "none", page)
    \/ \E r \in Requests : Extract(r, FALSE)
    \/ \E r \in Requests : Close(r)
    \/ \E r \in Requests : Fingerprint(r)
    \/ \E r \in Requests, queryError \in BOOLEAN : Lookup(r, queryError)
    \/ \E r \in Requests, score \in OracleScores : Oracle(r, "ok", score)
    \/ \E r \in Requests, outcome \in {"ok", "error"} : Store(r, outcome)
    \/ \E r \in Requests : CreditUpdate(r, FALSE)
    \/ \E r \in Requests : Recycle(r)
    \/ Tick

SpecConcurrent == Init /\ [][NextConcurrent]_vars

(***************************************************************************)
(* validateUrlSecurity called on its own: the URL and the two resolver     *)
(* outcomes are drawn in the initial state, the resolver prints the        *)
(* addresses it answers, and the call returns "ok" or the error it throws. *)
(***************************************************************************)
\* addresses the resolver may answer for a host: around every range boundary
\* of the IPv4 patterns that spans more than one value of an octet
GuardV4 ==
    { PublicV4, <<8, 8, 8, 8>>, PrivateV4, <<127, 0, 0, 1>>, <<169, 254, 169, 254>>,
      <<192, 168, 1, 1>> }
    \cup { <<172, b, 0, 1>> : b \in 15..32 }
    \cup { <<100, b, 0, 1>> : b \in 63..128 }

GuardV6 ==
    { PublicV6,
      <<0, 0, 0, 0, 0, 0, 0, 1>>,              \* ::1
      <<64512, 0, 0, 0, 0, 0, 0, 1>>,          \* fc00::1
      <<64786, 13398, 0, 0, 0, 0, 0, 1>>,      \* fd12:3456::1
      <<65152, 0, 0, 0, 0, 0, 0, 1>>,          \* fe80::1
      <<65168, 0, 0, 0, 0, 0, 0, 1>> }         \* fe90::1

\* A answers: none, one address, or a public address beside another one
GuardDns4 ==
    { [rejected |-> TRUE, addrs |-> <<>>] }
    \cup { [rejected |-> FALSE, addrs |-> <<a>>] : a \in GuardV4 }
    \cup { [rejected |-> FALSE, addrs |-> <<PublicV4, a>>] : a \in GuardV4 }
    \cup { [rejected |-> FALSE, addrs |-> <<a, PublicV4>>] : a \in GuardV4 }

GuardDns6 ==
    { [rejected |-> TRUE, addrs |-> <<>>] }
    \cup { [rejected |-> FALSE, addrs |-> <<a>>] : a \in GuardV6 }
    \cup { [rejected |-> FALSE, addrs |-> <<PublicV6, a>>] : a \in GuardV6 }

GuardUrls == {UrlArticle, UrlLocalhost}

\* the answer of dns.resolve4 as the text it returns
Printed4(answer) ==
    [rejected |-> answer.rejected,
     addrs |-> [i \in DOMAIN answer.addrs |-> Fmt4(answer.addrs[i])]]

\* the answer of dns.resolve6 as the text it returns
Printed6(answer) ==
    [rejected |-> answer.rejected,
     addrs |-> [i \in DOMAIN answer.addrs |-> Fmt6(answer.addrs[i])]]

InitGuard ==
    /\ InitStore(InitialCredits)
    /\ call \in { [fn |-> "validateUrlSecurity", url |-> u, dns4 |-> a, dns6 |-> b,
                   result |-> "pending"] : u \in GuardUrls, a \in GuardDns4, b \in GuardDns6 }

GuardCall ==
    /\ call.fn = "validateUrlSecurity"
    /\ call.result = "pending"
    /\ call' = [call EXCEPT !.result =
                  validateUrlSecurity(call.url, Printed4(call.dns4), Printed6(call.dns6))]
    /\ UNCHANGED <<profiles, analysis_results, clock, today, req, started>>

NextGuard == GuardCall

SpecGuard == InitGuard /\ [][NextGuard]_vars

(***************************************************************************)
(* validateUrlSecurity called with URLs whose host is an address literal,  *)
(* with URLs of other schemes and with text that is no URL, the resolver   *)
(* failing or answering a public address.                                  *)
(***************************************************************************)
\* http://a.b.c.d/
LiteralUrl4(ip) == <<"h","t","t","p",":","/","/">> \o Fmt4(ip) \o <<"/">>

\* http://[h]/
LiteralUrl6(h) == <<"h","t","t","p",":","/","/","[">> \o Fmt6(h) \o <<"]","/">>

HostV4 == GuardV4

HostV6 == GuardV6

UrlExampleArticle ==
    <<"h","t","t","p","s",":","/","/","e","x","a","m","p","l","e",".","c","o","m",
      "/","a","r","t","i","c","l","e">>

UrlExampleFtp == <<"f","t","p",":","/","/","e","x","a","m","p","l","e",".","c","o","m">>

UrlLoopback == LiteralUrl4(<<127, 0, 0, 1>>)

UrlMetadata == LiteralUrl4(<<169, 254, 169, 254>>)

\* URLs that new URL accepts and whose scheme is neither http nor https
OtherSchemeUrls ==
    { UrlExampleFtp, UrlFtp,
      <<"f","i","l","e",":","/","/","/","e","t","c","/","p","a","s","s","w","d">>,
      <<"g","o","p","h","e","r",":","/","/","e","x","a","m","p","l","e",".","c","o","m","/">>,
      <<"w","s",":","/","/","e","x","a","m","p","l","e",".","c","o","m","/">>,
      <<"j","a","v","a","s","c","r","i","p","t",":","a","l","e","r","t","(","1",")">>,
      <<"d","a","t","a",":","t","e","x","t","/","p","l","a","i","n",",","h","i">> }

\* text that new URL rejects
MalformedUrls ==
    { <<>>, <<"e","x","a","m","p","l","e",".","c","o","m","/","a","r","t","i","c","l","e">>,
      <<"h","t","t","p",":","/","/">> }

\* http(s) URLs whose host is a DNS name of a public site: names that start
\* with www, fc, fd, 10., 0., 127. and FD
PublicNameUrls ==
    { <<"h","t","t","p","s",":","/","/","w","w","w",".","e","x",".","c","o","m","/">>,
      <<"h","t","t","p",":","/","/","f","c","b",".","c","o","m","/">>,
      <<"h","t","t","p","s",":","/","/","f","d","i","c",".","g","o","v","/">>,
      <<"h","t","t","p",":","/","/","1","0",".","e","x",".","c","o","m","/">>,
      <<"h","t","t","p","s",":","/","/","0",".","e","x",".","c","o","m","/">>,
      <<"h","t","t","p",":","/","/","1","2","7",".","e","x",".","c","o","m","/">>,
      <<"h","t","t","p",":","/","/","F","D",".","e","x",".","c","o","m","/">> }

HostUrls ==
    { LiteralUrl4(ip) : ip \in HostV4 } \cup { LiteralUrl6(h) : h \in HostV6 }
    \cup OtherSchemeUrls \cup MalformedUrls
    \cup { UrlExampleArticle, UrlArticle, UrlLocalhost }
    \cup PublicNameUrls

HostDns4 == { [rejected |-> TRUE, addrs |-> <<>>], [rejected |-> FALSE, addrs |-> <<PublicV4>>] }

HostDns6 == { [rejected |-> TRUE, addrs |-> <<>>], [rejected |-> FALSE, addrs |-> <<PublicV6>>] }

InitHosts ==
    /\ InitStore(InitialCredits)
    /\ call \in { [fn |-> "validateUrlSecurity", url |-> u, dns4 |-> a, dns6 |-> b,
                   result |-> "pending"] : u \in HostUrls, a \in HostDns4, b \in HostDns6 }

SpecHosts == InitHosts /\ [][NextGuard]_vars

(***************************************************************************)
(* scraper.ts scrapeUrl, lines 725-938: the digest of a loaded page.       *)
(* A document is the sequence of its elements in document order, each with *)
(* its tag, class attribute, text and attributes, and the sequence of its  *)
(* tables.  Texts are ASCII: of every pattern of the code the alternatives *)
(* written in ASCII are modelled, and the urgency words, which have none,  *)
(* are written as the stand-ins of UrgencyWords.                           *)
(***************************************************************************)
CharAt(text, i) == SubSeq(text, i, i)

\* text.includes(word), and a regular expression that is one literal word
Contains(text, word) ==
    \E i \in 1..(Len(text) - Len(word) + 1) : SubSeq(text, i, i + Len(word) - 1) = word

WhiteSpace == {" ", "\n", "\t"}

\* text.trim()
RECURSIVE Trim(_)
Trim(text) ==
    IF text = "" THEN ""
    ELSE IF CharAt(text, 1) \in WhiteSpace THEN Trim(SubSeq(text, 2, Len(text)))
    ELSE IF CharAt(text, Len(text)) \in WhiteSpace THEN Trim(SubSeq(text, 1, Len(text) - 1))
    ELSE text

DigitStrings == {"0", "1", "2", "3", "4", "5", "6", "7", "8", "9"}

\* /\d+[%...]/: a digit followed by a unit
MatchesStat(text) ==
    \E i \in 1..(Len(text) - 1) : CharAt(text, i) \in DigitStrings /\ CharAt(text, i + 1) = "%"

\* stand-ins for two of the words of urgencyPatterns
UrgencyWords == {"[gentei]", "[imasugu]"}

MatchesUrgency(text) == \E w \in UrgencyWords : Contains(text, w)

\* [class*="word"] for one of the words
ClassHas(el, words) == \E w \in words : Contains(el.class, w)

\* lines 738-743
ValuePropsOf(els) ==
    LET Sel(el) == /\ el.tag \in {"h2", "h3"}
                   /\ Trim(el.text) # "" /\ Len(Trim(el.text)) < 100
                   /\ ~Contains(Trim(el.text), "FAQ")
        Text(el) == Trim(el.text)
        F[i \in 0..Len(els)] ==
            IF i = 0 THEN <<>>
            ELSE IF Sel(els[i]) THEN Append(F[i - 1], Text(els[i])) ELSE F[i - 1]
    IN  F[Len(els)]

\* lines 746-750
TestimonialsOf(els) ==
    LET Text(el) == Slice(Trim(el.text), 300)
        Sel(el)  == ClassHas(el, {"testimonial", "review", "voice"}) /\ Text(el) # ""
        F[i \in 0..Len(els)] ==
            IF i = 0 THEN <<>>
            ELSE IF Sel(els[i]) THEN Append(F[i - 1], Text(els[i])) ELSE F[i - 1]
    IN  F[Len(els)]

\* lines 753-759
StatsOf(els) ==
    LET Sel(el)  == MatchesStat(Trim(el.own))
        Text(el) == Slice(Trim(el.own), 100)
        F[i \in 0..Len(els)] ==
            IF i = 0 THEN <<>>
            ELSE IF Sel(els[i]) THEN Append(F[i - 1], Text(els[i])) ELSE F[i - 1]
    IN  F[Len(els)]

\* lines 763-767
MediaOf(els) ==
    LET Text(el) == Slice(Trim(el.text), 100)
        Sel(el)  == ClassHas(el, {"media"}) /\ Text(el) # ""
        F[i \in 0..Len(els)] ==
            IF i = 0 THEN <<>>
            ELSE IF Sel(els[i]) THEN Append(F[i - 1], Text(els[i])) ELSE F[i - 1]
    IN  F[Len(els)]

\* lines 770-771
PricingTextOf(els) ==
    LET Sel(el)  == ClassHas(el, {"price", "pricing"})
        Text(el) == el.text
        F[i \in 0..Len(els)] ==
            IF i = 0 THEN <<>>
            ELSE IF Sel(els[i]) THEN Append(F[i - 1], Text(els[i])) ELSE F[i - 1]
    IN  Slice(Trim(Join(F[Len(els)], "")), 500)

\* lines 775-780
FaqOf(els) ==
    LET Text(el) == Slice(Trim(el.text), 200)
        Sel(el)  == /\ ClassHas(el, {"faq", "FAQ", "question"}) \/ el.tag = "dt"
                    /\ Contains(Text(el), "?")
        F[i \in 0..Len(els)] ==
            IF i = 0 THEN <<>>
            ELSE IF Sel(els[i]) THEN Append(F[i - 1], Text(els[i])) ELSE F[i - 1]
    IN  F[Len(els)]

\* lines 790-798
UrgencyOf(els) ==
    LET Sel(el)  == MatchesUrgency(Trim(el.own))
        Text(el) == Slice(Trim(el.own), 100)
        F[i \in 0..Len(els)] ==
            IF i = 0 THEN <<>>
            ELSE IF Sel(els[i]) THEN Append(F[i - 1], Text(els[i])) ELSE F[i - 1]
    IN  F[Len(els)]

\* lines 801-805
CtasOf(els) ==
    LET Text(el) == IF Trim(el.text) # "" THEN Trim(el.text) ELSE el.value
        Sel(el)  == /\ \/ el.tag = "button"
                       \/ el.tag = "a" /\ ClassHas(el, {"btn", "button"})
                       \/ el.tag = "input" /\ el.type = "submit"
                       \/ ClassHas(el, {"cta"})
                    /\ Text(el) # "" /\ Len(Text(el)) < 50
        F[i \in 0..Len(els)] ==
            IF i = 0 THEN <<>>
            ELSE IF Sel(els[i]) THEN Append(F[i - 1], Text(els[i])) ELSE F[i - 1]
    IN  F[Len(els)]

\* lines 833-840
CodeBlocksOf(els) ==
    LET Text(el) == Trim(el.text)
        Sel(el)  == /\ el.tag \in {"pre", "code"}
                    /\ Text(el) # "" /\ Len(Text(el)) > 20 /\ Len(Text(el)) < 3000
        F[i \in 0..Len(els)] ==
            IF i = 0 THEN <<>>
            ELSE IF Sel(els[i]) THEN Append(F[i - 1], Text(els[i])) ELSE F[i - 1]
    IN  F[Len(els)]

HeadingTags == <<"h1", "h2", "h3", "h4", "h5", "h6">>

\* lines 843-851
HeadingsOf(els) ==
    LET Sel(el)  == /\ \E i \in DOMAIN HeadingTags : HeadingTags[i] = el.tag
                    /\ Trim(el.text) # "" /\ Len(Trim(el.text)) < 200
        Item(el) == [level |-> CHOOSE i \in DOMAIN HeadingTags : HeadingTags[i] = el.tag,
                     text |-> Trim(el.text)]
        F[i \in 0..Len(els)] ==
            IF i = 0 THEN <<>>
            ELSE IF Sel(els[i]) THEN Append(F[i - 1], Item(els[i])) ELSE F[i - 1]
    IN  F[Len(els)]

\* lines 811-830: the p elements of the document
ParagraphsOf(els) ==
    LET Sel(el)  == el.tag = "p"
        Item(el) == [text |-> Trim(el.text), inContainer |-> el.inContainer]
        F[i \in 0..Len(els)] ==
            IF i = 0 THEN <<>>
            ELSE IF Sel(els[i]) THEN Append(F[i - 1], Item(els[i])) ELSE F[i - 1]
    IN  F[Len(els)]

\* the rows of a table in document order: a table is the sequence of its
\* sections (thead, tbody, tfoot), a section the sequence of its rows, a row
\* the sequence of its cells; the HTML parser puts every tr in a section
TableRowsInOrder(table) ==
    LET F[i \in 0..Len(table)] ==
            IF i = 0 THEN <<>>
            ELSE F[i - 1] \o [k \in DOMAIN table[i].rows |->
                                [cells |-> table[i].rows[k], inThead |-> table[i].kind = "thead",
                                 firstChild |-> k = 1]]
    IN  F[Len(table)]

\* line 859: find('thead th, thead td, tr:first-child th')
TableHeaders(table) ==
    LET rows == TableRowsInOrder(table)
        Cells(row) ==
            LET G[j \in 0..Len(row.cells)] ==
                    IF j = 0 THEN <<>>
                    ELSE IF row.inThead \/ (row.firstChild /\ row.cells[j].th)
                         THEN Append(G[j - 1], Trim(row.cells[j].text))
                         ELSE G[j - 1]
            IN  G[Len(row.cells)]
        F[i \in 0..Len(rows)] == IF i = 0 THEN <<>> ELSE F[i - 1] \o Cells(rows[i])
    IN  F[Len(rows)]

\* lines 864-875: find('tbody tr, tr'), the first row skipped when there are headers
TableDataRows(table, headers) ==
    LET rows == TableRowsInOrder(table)
        Cells(row) == [j \in DOMAIN row.cells |-> Trim(row.cells[j].text)]
        F[i \in 0..Len(rows)] ==
            IF i = 0 THEN <<>>
            ELSE IF i = 1 /\ Len(headers) > 0 THEN F[i - 1]
            ELSE IF Len(Cells(rows[i])) > 0 /\ \E j \in DOMAIN rows[i].cells : Cells(rows[i])[j] # ""
                 THEN Append(F[i - 1], Cells(rows[i]))
            ELSE F[i - 1]
    IN  F[Len(rows)]

\* lines 853-880
TablesOf(tables) ==
    LET Item(table) == [headers |-> TableHeaders(table),
                        rows |-> TableDataRows(table, TableHeaders(table))]
        F[i \in 0..Len(tables)] ==
            IF i = 0 THEN <<>>
            ELSE IF Len(Item(tables[i]).headers) > 0 \/ Len(Item(tables[i]).rows) > 0
                 THEN Append(F[i - 1], Item(tables[i]))
            ELSE F[i - 1]
    IN  F[Len(tables)]

SchemeChars ==
    { LowerChars[i] : i \in DOMAIN LowerChars } \cup { UpperChars[i] : i \in DOMAIN UpperChars }
    \cup { DigitChars[i] : i \in DOMAIN DigitChars } \cup {"+", "-", "."}

\* the reference starts with a scheme
HasScheme(href) ==
    LET colon == IndexOfAny(href, {":"}, 1)
    IN  /\ colon > 1 /\ colon <= Len(href)
        /\ LowerChar(href[1]) \in LetterChars
        /\ \A i \in 2..(colon - 1) : href[i] \in SchemeChars

\* new URL(href, base) for an absolute URL, a reference that starts with "//"
\* and a path, query or fragment reference
ResolveURL(href, base) ==
    IF HasScheme(href) THEN ParseURL(href)
    ELSE IF StartsWith(href, <<"/","/">>) THEN ParseURL(ParseURL(base).protocol \o href)
    ELSE ParseURL(base)

\* ClassifyLink comparing host and port
ClassifyLinkByHostAndPort(href, url) ==
    LET linkUrl == ResolveURL(href, url)
    IN  IF ~linkUrl.ok THEN "dropped"
        ELSE IF linkUrl.hostname = ParseURL(url).hostname /\ linkUrl.port = ParseURL(url).port
             THEN "internal"
        ELSE "external"

\* lines 891-897: the try block and its empty catch
ClassifyLink(href, url) ==
    LET linkUrl == ResolveURL(href, url)
    IN  IF ~linkUrl.ok THEN "dropped"
        ELSE IF linkUrl.hostname = ParseURL(url).hostname THEN "internal"
        ELSE "external"

\* lines 883-898
LinksOf(els, url) ==
    LET Sel(el)  == /\ el.tag = "a" /\ el.hasHref
                    /\ el.href # <<>> /\ Trim(el.text) # "" /\ Len(Trim(el.text)) <= 100
                    /\ ClassifyLink(el.href, url) # "dropped"
        Item(el) == [type |-> ClassifyLink(el.href, url), url |-> el.href, text |-> Trim(el.text)]
        F[i \in 0..Len(els)] ==
            IF i = 0 THEN <<>>
            ELSE IF Sel(els[i]) THEN Append(F[i - 1], Item(els[i])) ELSE F[i - 1]
    IN  F[Len(els)]

\* lines 900-938: the bounded fields of the digest scrapeUrl returns
\* String.prototype.toLowerCase on a text
LowerCaseText(s) ==
    LET F[i \in 0..Len(s)] == IF i = 0 THEN "" ELSE F[i - 1] \o LowerChar(CharAt(s, i))
    IN  F[Len(s)]

\* the title element of the head of every page of the model
DocTitle == "About us - Privacy - Contact"

\* the text of the body's elements and of the cells of its tables, in order
BodyElementsText(doc) ==
    LET cells(row)  == Join([c \in 1..Len(row) |-> row[c].text], "")
        rows(sec)   == Join([k \in 1..Len(sec.rows) |-> cells(sec.rows[k])], "")
        table(t)    == Join([k \in 1..Len(t) |-> rows(t[k])], "")
    IN  Join([k \in 1..Len(doc.elements) |-> doc.elements[k].text], "")
        \o Join([k \in 1..Len(doc.tables) |-> table(doc.tables[k])], "")

\* PageText taking the text of the whole document, head included
PageTextOfDocument(doc) == DocTitle \o BodyElementsText(doc)

\* $('body').text()
PageText(doc) == BodyElementsText(doc)

\* pageText.toLowerCase().includes(word); toLowerCase keeps the length of ASCII text
LowerCaseIncludes(text, word) ==
    \E i \in 1..(Len(text) - Len(word) + 1) :
        LowerCaseText(SubSeq(text, i, i + Len(word) - 1)) = word

\* lines 783-787; the words of the model's pages are the English ones
TrustSignalsOf(doc) ==
    [ hasCompanyInfo   |-> LowerCaseIncludes(PageText(doc), "about"),
      hasPrivacyPolicy |-> LowerCaseIncludes(PageText(doc), "privacy"),
      hasTokushoho     |-> FALSE,
      hasContact       |-> LowerCaseIncludes(PageText(doc), "contact") ]

StructuredLP(doc, url) ==
    [ trustSignals |-> TrustSignalsOf(doc),
      valueProps   |-> Slice(Dedupe(ValuePropsOf(doc.elements)), 10),
      testimonials |-> Slice(Dedupe(TestimonialsOf(doc.elements)), 5),
      stats        |-> Slice(Dedupe(StatsOf(doc.elements)), 10),
      media        |-> Slice(Dedupe(MediaOf(doc.elements)), 5),
      pricingText  |-> Slice(PricingTextOf(doc.elements), 500),
      faq          |-> Slice(Dedupe(FaqOf(doc.elements)), 10),
      urgency      |-> Slice(Dedupe(UrgencyOf(doc.elements)), 5),
      ctas         |-> Slice(Dedupe(CtasOf(doc.elements)), 10),
      bodyText     |-> ExtractBodyText(ParagraphsOf(doc.elements)),
      codeBlocks   |-> Slice(Dedupe(CodeBlocksOf(doc.elements)), 10),
      headings     |-> Slice(HeadingsOf(doc.elements), 30),
      links        |-> Slice(LinksOf(doc.elements, url), 20),
      tables       |-> Slice(TablesOf(doc.tables), 10) ]

(***************************************************************************)
(* The digest built on its own: a document is drawn in the initial state   *)
(* and scrapeUrl's extraction is applied to it, for the page UrlArticle.   *)
(***************************************************************************)
RECURSIVE Repeat(_, _)
Repeat(text, k) == IF k = 0 THEN "" ELSE text \o Repeat(text, k - 1)

\* an element with a tag, a class attribute and a text
El(tag, class, text) ==
    [tag |-> tag, class |-> class, text |-> text, own |-> text, value |-> "", type |-> "",
     hasHref |-> FALSE, href |-> <<>>, inContainer |-> TRUE]

\* hrefs of a page served at UrlArticle, with the hostname new URL(href,
\* UrlArticle) has for each, "" standing for an href new URL rejects
LinkCases ==
    << [href |-> <<"/","p","r","i","c","i","n","g">>, hostname |-> "ex.com", valid |-> TRUE],
       [href |-> <<"#","t","o","p">>, hostname |-> "ex.com", valid |-> TRUE],
       [href |-> <<"b",".","h","t","m","l">>, hostname |-> "ex.com", valid |-> TRUE],
       [href |-> <<"h","t","t","p","s",":","/","/","E","X",".","c","o","m","/","b">>,
        hostname |-> "ex.com", valid |-> TRUE],
       [href |-> <<"h","t","t","p",":","/","/","e","x",".","c","o","m",":","8","0","8","0","/">>,
        hostname |-> "ex.com", valid |-> TRUE],
       [href |-> <<"h","t","t","p","s",":","/","/","o","t","h","e","r",".","o","r","g","/">>,
        hostname |-> "other.org", valid |-> TRUE],
       [href |-> <<"h","t","t","p","s",":","/","/","w","w","w",".","e","x",".","c","o","m","/">>,
        hostname |-> "www.ex.com", valid |-> TRUE],
       [href |-> <<"/","/","c","d","n",".","o","r","g","/","x">>,
        hostname |-> "cdn.org", valid |-> TRUE],
       [href |-> <<"/","/","e","x",".","c","o","m","/","y">>, hostname |-> "ex.com", valid |-> TRUE],
       [href |-> <<"m","a","i","l","t","o",":","a","@","e","x",".","c","o","m">>,
        hostname |-> "", valid |-> TRUE],
       [href |-> <<"j","a","v","a","s","c","r","i","p","t",":","v","o","i","d","(","0",")">>,
        hostname |-> "", valid |-> TRUE],
       [href |-> <<"h","t","t","p",":","/","/">>, hostname |-> "", valid |-> FALSE],
       [href |-> <<"h","t","t","p",":","/","/","e","x",".","c","o","m",":","x","/">>,
        hostname |-> "", valid |-> FALSE],
       [href |-> <<"/","/">>, hostname |-> "", valid |-> FALSE] >>

\* the j-th a element of the model
Anchor(j) ==
    [El("a", "", " Link " \o ToString(j) \o " ") EXCEPT
        !.hasHref = TRUE, !.href = LinkCases[((j - 1) % Len(LinkCases)) + 1].href]

DocKinds == {"h2", "testimonial", "stat", "media", "price", "faq", "urgency", "cta", "code",
             "p", "a", "trust"}

\* the j-th element of a kind
Elem(kind, j) ==
    LET n == ToString(j)
    IN  CASE kind = "h2" -> El("h2", "", " Feature " \o n \o " ")
          [] kind = "testimonial" ->
                El("div", "testimonial-card", "Review " \o n \o ": " \o Repeat("great ", 60))
          [] kind = "stat" -> El("span", "", "Stat " \o n \o ": 30% more")
          [] kind = "media" -> El("div", "media-logo", "Outlet " \o n)
          [] kind = "price" ->
                El("div", "pricing-plan", "Plan " \o n \o Repeat(" costs 10 per month", 8))
          [] kind = "faq" -> El("dt", "", "Question " \o n \o "?")
          [] kind = "urgency" -> El("span", "", "Offer " \o n \o " [gentei]")
          [] kind = "cta" -> El("button", "", "Buy plan " \o n)
          [] kind = "code" -> El("pre", "", "console.log('snippet " \o n \o "');")
          [] kind = "trust" -> El("li", "", "About us, PRIVACY policy, Contact " \o n)
          [] kind = "p" -> El("p", "", "Paragraph " \o n \o ": " \o Repeat("lorem ipsum ", 50))
          [] OTHER -> Anchor(j)

\* how many elements a document has, and how many of them differ
DocSizes == {0, 1, 4, 6, 11, 12, 22, 32}

DocDistinct == {1, 3, 40}

\* n elements of a kind, the k-th equal to the (k - m)-th
Items(kind, n, m) == [k \in 1..n |-> Elem(kind, ((k - 1) % m) + 1)]

Th(text) == [th |-> TRUE, text |-> text]

Td(text) == [th |-> FALSE, text |-> text]

Section(kind, rows) == [kind |-> kind, rows |-> rows]

\* a header row and two data rows, numbered j
BodyRows(j) == << <<Td("a" \o ToString(j)), Td(" b ")>>, <<Td("c"), Td("d")>> >>

\* table markup: thead and tbody; a first row of th cells; no header; thead
\* and a tbody whose rows start with a th; no header and rows that start with
\* a th; a thead of td cells; an empty row; no row at all
TableShapes(j) ==
    << << Section("thead", << <<Th("H1"), Th("H2")>> >>), Section("tbody", BodyRows(j)) >>,
       << Section("tbody", << <<Th("H1"), Th("H2")>> >> \o BodyRows(j)) >>,
       << Section("tbody", BodyRows(j)) >>,
       << Section("thead", << <<Th("H1"), Th("H2")>> >>),
          Section("tbody", << <<Th("R1"), Td("a")>>, <<Th("R2"), Td("b")>> >>) >>,
       << Section("tbody", << <<Th("R1"), Td("a")>>, <<Th("R2"), Td("b")>> >>) >>,
       << Section("thead", << <<Td("H1"), Td("H2")>> >>), Section("tbody", BodyRows(j)) >>,
       << Section("tbody", << <<Th("H1"), Th("H2")>>, <<Td(""), Td(" ")>> >> \o BodyRows(j)) >>,
       << Section("tbody", <<>>) >> >>

\* documents of n tables of one shape
TableDocs ==
    { [elements |-> <<>>,
       tables |-> [k \in 1..n |-> TableShapes(((k - 1) % m) + 1)[shape]]] :
         shape \in 1..8, n \in {1, 2, 11}, m \in {1, 40} }

Docs ==
    { [elements |-> Items(kind, n, m), tables |-> <<>>] :
         kind \in DocKinds, n \in DocSizes, m \in DocDistinct }
    \cup TableDocs

\* no digest yet
NoDigest ==
    [ valueProps |-> <<>>, testimonials |-> <<>>, stats |-> <<>>, media |-> <<>>,
      pricingText |-> "", faq |-> <<>>, urgency |-> <<>>, ctas |-> <<>>, bodyText |-> "",
      codeBlocks |-> <<>>, headings |-> <<>>, links |-> <<>>, tables |-> <<>>,
      trustSignals |-> [hasCompanyInfo |-> FALSE, hasPrivacyPolicy |-> FALSE,
                        hasTokushoho |-> FALSE, hasContact |-> FALSE] ]

InitDigest ==
    /\ InitStore(InitialCredits)
    /\ call \in { [fn |-> "scrapeUrl", url |-> UrlArticle, doc |-> d, returned |-> FALSE,
                   lp |-> NoDigest] : d \in Docs }

\* lines 725-938 for the document of the call
DigestCall ==
    /\ call.fn = "scrapeUrl"
    /\ ~call.returned
    /\ call' = [call EXCEPT !.returned = TRUE, !.lp = StructuredLP(call.doc, call.url)]
    /\ UNCHANGED <<profiles, analysis_results, clock, today, req, started>>

NextDigest == DigestCall

SpecDigest == InitDigest /\ [][NextDigest]_vars

(***************************************************************************)
(* Vocabulary of the properties                                            *)
(***************************************************************************)
\* the stages of the pipeline a request has started
StageSet(q) == { q.stages[i] : i \in DOMAIN q.stages }

\* the keys a request of the model can compute
UrlHashes == { generateUrlHash(UrlArticle) }

ContentHashes == { generateContentHash(BodyTextOf[page]) : page \in Pages }

Models == { AI_MODELS.free, AI_MODELS.pro }

\* row i of the table was stored under (u, c, l)
StoredUnder(i, u, c, l) ==
    /\ analysis_results[i].url_hash = u
    /\ analysis_results[i].content_hash = c
    /\ analysis_results[i].language = l

\* a lookup in the table as it is now, the query succeeding
LookupNow(u, c, l, m) == getCachedResult(analysis_results, u, c, l, m, FALSE)

(***************************************************************************)
(* Properties of the cache and of the request pipeline                     *)
(***************************************************************************)
\* C1: a lookup that requires model m returns a miss or an entry tagged m, and
\* it returns an entry tagged m whenever one is stored under the key, whatever
\* was stored later under another tag; a premium request served from the cache
\* is served an entry tagged with the pro model.
C1_ModelTagIsolation ==
    /\ \A u \in UrlHashes, c \in ContentHashes, l \in Languages, m \in Models :
          LET hit == LookupNow(u, c, l, m)
          IN  /\ hit # NullRow => hit.model = m
              /\ (\E i \in DOMAIN analysis_results :
                     StoredUnder(i, u, c, l) /\ analysis_results[i].model = m)
                      => hit # NullRow
    /\ \A r \in Requests :
          (req[r].cached /\ req[r].isPremium)
              => /\ req[r].cachedResult.model = AI_MODELS.pro
                 /\ req[r].cachedResult.model # AI_MODELS.free

\* a pro entry and a later free entry stand under one key, and a premium request
\* has been answered from the cache with the pro entry
C1_Witness ==
    \E r \in Requests : \E i, j \in DOMAIN analysis_results :
        /\ i < j
        /\ analysis_results[i].model = AI_MODELS.pro
        /\ analysis_results[j].model = AI_MODELS.free
        /\ StoredUnder(j, analysis_results[i].url_hash, analysis_results[i].content_hash,
                       analysis_results[i].language)
        /\ req[r].pc = "done" /\ req[r].cached /\ req[r].isPremium
        /\ req[r].cachedResult = analysis_results[i]

\* C2: a request answered from the cache has not called the oracle, has stored
\* nothing, has not called consumeCredit and has not decremented free_credits.
C2_CacheHitSkipsOracleAndCredit ==
    \A r \in Requests :
        req[r].cached =>
            /\ StageSet(req[r]) \cap {"oracle", "store", "consume"} = {}
            /\ req[r].oracleModel = ""
            /\ req[r].inserts = 0
            /\ req[r].consumeCalls = 0
            /\ req[r].decrements = 0
            /\ req[r].free_credits = req[r].freeCredits

\* a free user holding credits has been answered from the cache
C2_Witness ==
    \E r \in Requests :
        /\ req[r].pc = "done" /\ req[r].cached /\ ~req[r].isPremium
        /\ req[r].status = 200 /\ req[r].freeCredits > 0
        /\ profiles[req[r].userId].free_credits = req[r].freeCredits

\* C3: a lookup under a content fingerprint nothing was stored under misses,
\* whatever is stored under other fingerprints of the same URL and language;
\* texts that differ have fingerprints that differ, and a request is only ever
\* served an entry stored under the fingerprint of the text it extracted.
C3_ContentChangeMisses ==
    /\ \A u \in UrlHashes, c \in ContentHashes, l \in Languages, m \in Models \cup {Undefined} :
          (~\E i \in DOMAIN analysis_results : StoredUnder(i, u, c, l))
              => LookupNow(u, c, l, m) = NullRow
    /\ \A p1, p2 \in Pages :
          BodyTextOf[p1] # BodyTextOf[p2]
              => generateContentHash(BodyTextOf[p1]) # generateContentHash(BodyTextOf[p2])
    /\ \A r \in Requests :
          req[r].cached
              => req[r].cachedResult.content_hash = generateContentHash(req[r].bodyText)

\* an entry is stored for the URL and language of a request, under another
\* content fingerprint and a model the request accepts; the lookup of the
\* request succeeded and missed, and the request goes on to the oracle
C3_Witness ==
    \E r \in Requests : \E i \in DOMAIN analysis_results :
        /\ req[r].pc = "oracle" /\ "lookup" \in req[r].completed
        /\ analysis_results[i].url_hash = req[r].urlHash
        /\ analysis_results[i].language = req[r].language
        /\ analysis_results[i].content_hash # req[r].contentHash
        /\ req[r].requiredModel \in {Undefined, analysis_results[i].model}

\* C4: a lookup returns a miss exactly when no stored entry matches the key
\* (and the model, when one is required), and otherwise the matching entry
\* created last; creation times are distinct and grow with the insertions, so
\* a lookup with the key of the entry stored last returns that entry.
C4_MostRecentWins ==
    /\ \A i, j \in DOMAIN analysis_results :
          i < j => analysis_results[i].created_at < analysis_results[j].created_at
    /\ \A u \in UrlHashes, c \in ContentHashes, l \in Languages, m \in Models \cup {Undefined} :
          LET matching == { i \in DOMAIN analysis_results :
                              /\ StoredUnder(i, u, c, l)
                              /\ m # Undefined => analysis_results[i].model = m }
              hit      == LookupNow(u, c, l, m)
          IN  IF matching = {} THEN hit = NullRow
              ELSE \E i \in matching :
                      /\ hit = analysis_results[i]
                      /\ \A j \in matching : j <= i
    /\ analysis_results # <<>> =>
          LET last == analysis_results[Len(analysis_results)]
          IN  /\ LookupNow(last.url_hash, last.content_hash, last.language, last.model) = last
              /\ LookupNow(last.url_hash, last.content_hash, last.language, Undefined) = last
    /\ \A r \in Requests :
          (req[r].cached /\ req[r].pc = "done")
              => \E i \in DOMAIN analysis_results :
                    /\ req[r].cachedResult = analysis_results[i]
                    /\ \A j \in DOMAIN analysis_results :
                          (/\ StoredUnder(j, req[r].urlHash, req[r].contentHash, req[r].language)
                           /\ req[r].requiredModel # Undefined
                                  => analysis_results[j].model = req[r].requiredModel)
                              => j <= i

\* two entries match the key of a request, which was answered with the later one
C4_Witness ==
    \E r \in Requests : \E i, j \in DOMAIN analysis_results :
        /\ i < j
        /\ StoredUnder(i, req[r].urlHash, req[r].contentHash, req[r].language)
        /\ StoredUnder(j, req[r].urlHash, req[r].contentHash, req[r].language)
        /\ req[r].requiredModel = Undefined
        /\ req[r].pc = "done" /\ req[r].cached
        /\ req[r].cachedResult = analysis_results[j]

\* C5: no step removes or changes a stored entry, under any interleaving of
\* two requests; a store that succeeds adds exactly one entry, under the key
\* and model of the request that stores, also when an entry with that key is
\* already there.
C5_CacheAppendOnly ==
    [][ /\ Len(analysis_results') >= Len(analysis_results)
        /\ SubSeq(analysis_results', 1, Len(analysis_results)) = analysis_results
        /\ \A r \in Requests :
              req'[r].inserts > req[r].inserts
                  => /\ Len(analysis_results') = Len(analysis_results) + 1
                     /\ LET new == analysis_results'[Len(analysis_results')]
                        IN  /\ new.url_hash = req[r].urlHash
                            /\ new.content_hash = req[r].contentHash
                            /\ new.language = req[r].language
                            /\ new.model = req'[r].oracleModel ]_vars

\* two requests in flight at once have both stored under one key and model,
\* and the table holds an entry for each
C5_Witness ==
    /\ req["r1"].inserts = 1 /\ req["r2"].inserts = 1
    /\ req["r1"].urlHash = req["r2"].urlHash
    /\ req["r1"].contentHash = req["r2"].contentHash
    /\ req["r1"].language = req["r2"].language
    /\ req["r1"].oracleModel = req["r2"].oracleModel
    /\ Cardinality({ i \in DOMAIN analysis_results :
                       /\ StoredUnder(i, req["r1"].urlHash, req["r1"].contentHash,
                                      req["r1"].language)
                       /\ analysis_results[i].model = req["r1"].oracleModel }) >= 2

\* C6: after a failed store (an error returned or an exception) the request is
\* in credit consumption or has answered; if it has answered, the answer is the
\* 200 response with the score the oracle computed; consumeCredit was called
\* for a free user.
C6_StoreFailureIsSwallowed ==
    \A r \in Requests :
        req[r].storeOutcome \in {"error", "throw"} =>
            /\ req[r].pc \in {"profileRead", "profileReset", "creditUpdate", "done"}
            /\ req[r].pc = "done" =>
                  /\ req[r].status = 200 /\ req[r].kind = "Ok" /\ ~req[r].cached
                  /\ req[r].geo_score \in OracleScores
            /\ ~req[r].isPremium => ("consume" \in StageSet(req[r]) /\ req[r].consumeCalls = 1)

\* the insert threw, and the free user got the 200 response and paid a credit
C6_Witness ==
    \E r \in Requests :
        /\ req[r].storeOutcome = "throw" /\ req[r].pc = "done" /\ req[r].status = 200
        /\ ~req[r].isPremium /\ req[r].decrements = 1 /\ req[r].inserts = 0

\* C7: a cache query that returns an error yields null, and a request whose
\* lookup failed is not answered from the cache and goes on to the oracle.
C7_LookupFailureIsMiss ==
    /\ \A u \in UrlHashes, c \in ContentHashes, l \in Languages, m \in Models \cup {Undefined} :
          getCachedResult(analysis_results, u, c, l, m, TRUE) = NullRow
    /\ \A r \in Requests :
          ("lookup" \in StageSet(req[r]) /\ "lookup" \notin req[r].completed)
              => /\ ~req[r].cached
                 /\ req[r].pc = "oracle" \/ "oracle" \in StageSet(req[r])

\* the lookup of a request failed although an entry stored by an earlier
\* request matched its key, and the oracle has answered the request, which is
\* about to store
C7_Witness ==
    \E r \in Requests :
        /\ "lookup" \in StageSet(req[r]) /\ "lookup" \notin req[r].completed
        /\ "oracle" \in req[r].completed /\ req[r].pc = "store"
        /\ \E i \in DOMAIN analysis_results :
              /\ StoredUnder(i, req[r].urlHash, req[r].contentHash, req[r].language)
              /\ req[r].requiredModel \in {Undefined, analysis_results[i].model}

StageOrder == <<"validate", "render", "extract", "fingerprint", "lookup", "oracle",
                "store", "consume">>

StageIndex(stage) == CHOOSE i \in DOMAIN StageOrder : StageOrder[i] = stage

\* the stages a request started are in pipeline order, none twice
InPipelineOrder(q) ==
    \A i, j \in DOMAIN q.stages : i < j => StageIndex(q.stages[i]) < StageIndex(q.stages[j])

\* C8 as stated: the stages of a request run in pipeline order, none twice, the
\* oracle only on a miss, and a stage starts only when every earlier stage has
\* completed successfully.
C8_StagesAfterSuccess ==
    \A r \in Requests :
        /\ InPipelineOrder(req[r])
        /\ "oracle" \in StageSet(req[r]) => ~req[r].cached
        /\ \A i \in DOMAIN req[r].stages :
              \A k \in 1..(StageIndex(req[r].stages[i]) - 1) :
                  StageOrder[k] \in req[r].completed

\* C8, amended: the stages of a request run in pipeline order, none twice, the
\* oracle only on a miss, and a stage starts only when every earlier stage has
\* ended, successfully unless it is the cache lookup or the cache store, whose
\* failure is a miss or is swallowed.
C8_StagesInOrder ==
    \A r \in Requests :
        /\ InPipelineOrder(req[r])
        /\ "oracle" \in StageSet(req[r]) => ~req[r].cached
        /\ \A i \in DOMAIN req[r].stages :
              \A k \in 1..(StageIndex(req[r].stages[i]) - 1) :
                  \/ StageOrder[k] \in req[r].completed
                  \/ StageOrder[k] \in {"lookup", "store"} /\ StageOrder[k] \in StageSet(req[r])

\* a request ran all eight stages, its lookup and its store having failed
C8_Witness ==
    \E r \in Requests :
        /\ req[r].stages = StageOrder
        /\ req[r].pc = "done"
        /\ req[r].completed = {"validate", "render", "extract", "fingerprint", "oracle", "consume"}

\* validateUrlSecurity threw for the request
ValidationFailed(q) == "validate" \in StageSet(q) /\ "validate" \notin q.completed

\* the launch, or a step between launch and extraction, threw for the request
RenderFailed(q) == "render" \in StageSet(q) /\ "render" \notin q.completed /\ q.pc # "render"

\* C9: when validateUrlSecurity rejects the URL no browser is launched and no
\* navigation issued; when validation or rendering fails the request does
\* nothing but close the browser and answer with the fetch error: no cache
\* lookup, oracle call, cache store or credit consumption.
C9_FailFast ==
    \A r \in Requests :
        /\ ValidationFailed(req[r]) =>
              req[r].launches = 0 /\ req[r].navigations = 0 /\ req[r].browser = "none"
        /\ (ValidationFailed(req[r]) \/ RenderFailed(req[r])) =>
              /\ req[r].pc \in {"close", "done"}
              /\ req[r].pc = "done" => (req[r].status = 400 /\ req[r].kind = "FetchFailed")
              /\ StageSet(req[r]) \cap {"lookup", "oracle", "store", "consume"} = {}
              /\ req[r].oracleModel = "" /\ req[r].inserts = 0
              /\ req[r].consumeCalls = 0 /\ req[r].decrements = 0

\* the URL of a request named a public host that resolved to a private address:
\* the request was answered with the fetch error
C9_Witness ==
    \E r \in Requests :
        /\ ValidationFailed(req[r]) /\ req[r].url = UrlArticle
        /\ req[r].pc = "done" /\ req[r].status = 400

(***************************************************************************)
(* Address ranges, by number: the ranges the guard is to keep out          *)
(***************************************************************************)
\* 10/8, 172.16/12, 192.168/16, 169.254/16, 127/8 and 100.64/10
Disallowed4(ip) ==
    \/ ip[1] = 10
    \/ ip[1] = 172 /\ ip[2] \in 16..31
    \/ ip[1] = 192 /\ ip[2] = 168
    \/ ip[1] = 169 /\ ip[2] = 254
    \/ ip[1] = 127
    \/ ip[1] = 100 /\ ip[2] \in 64..127

\* ::1, fc00::/7 and fe80::/10
Disallowed6(h) ==
    \/ h = <<0, 0, 0, 0, 0, 0, 0, 1>>
    \/ h[1] \in 64512..65023
    \/ h[1] \in 65152..65215

\* a resolution of the call answered an address of a disallowed range
ResolvedDisallowed ==
    \/ ~call.dns4.rejected /\ \E i \in DOMAIN call.dns4.addrs : Disallowed4(call.dns4.addrs[i])
    \/ ~call.dns6.rejected /\ \E i \in DOMAIN call.dns6.addrs : Disallowed6(call.dns6.addrs[i])

\* C10: validateUrlSecurity rejects the URL whenever an address answered by the
\* A or the AAAA resolution of its host lies in a private, loopback, link-local
\* or carrier-NAT range, whatever else was answered and whether or not the
\* other resolution failed.
C10_RejectsDisallowedResolution ==
    (call.fn = "validateUrlSecurity" /\ call.result # "pending" /\ ResolvedDisallowed)
        => call.result # "ok"

\* the URL passes the hostname check and the literal-address check (lines 569-596)
PassesHostChecks(url) ==
    LET parsed == ParseURL(url)
    IN  /\ parsed.ok
        /\ parsed.protocol \in HttpProtocols
        /\ parsed.hostname # <<>>
        /\ ~isBlockedHostname(parsed.hostname)
        /\ ~isPrivateIP(parsed.hostname)

\* an address the resolver answered matches a pattern of PRIVATE_IP_PATTERNS
BlockRuleHit ==
    \/ /\ ~call.dns4.rejected
       /\ \E i \in DOMAIN call.dns4.addrs : isPrivateIP(Fmt4(call.dns4.addrs[i]))
    \/ /\ ~call.dns6.rejected
       /\ \E i \in DOMAIN call.dns6.addrs : isPrivateIP(Fmt6(call.dns6.addrs[i]))

\* C11: for a URL that passes the hostname and literal-address checks,
\* validateUrlSecurity throws exactly when a resolved address hits a block rule;
\* a failed A or AAAA resolution counts as no address, so with both failed the
\* call returns, and after a call that returns the request launches the browser.
C11_DnsFailureIsNotRejection ==
    (call.fn = "validateUrlSecurity" /\ call.result # "pending" /\ PassesHostChecks(call.url))
        => /\ call.result = "ok" <=> ~BlockRuleHit
           /\ call.result # "ok" => call.result = "ResolvedAddressBlocked"
           /\ (call.dns4.rejected /\ call.dns6.rejected) => call.result = "ok"
           /\ call.result = "ok"
                 => AfterValidate(Begin(IdleRequest, "validate"), call.result).pc = "launch"

\* the A resolution failed, the AAAA resolution answered a public address, and
\* the call returned
C11_Witness ==
    /\ call.fn = "validateUrlSecurity" /\ call.url = UrlArticle
    /\ call.dns4.rejected
    /\ call.dns6 = [rejected |-> FALSE, addrs |-> <<PublicV6>>]
    /\ call.result = "ok"

\* the call of validateUrlSecurity has returned or thrown
Called == call.fn = "validateUrlSecurity" /\ call.result # "pending"

\* C12: validateUrlSecurity rejects http://a.b.c.d/ for every literal IPv4 host
\* in 10/8, 172.16/12, 192.168/16, 169.254/16, 127/8 or 100.64/10, whatever
\* the resolver does.
C12_RejectsPrivateV4Literal ==
    \A ip \in HostV4 :
        (Called /\ call.url = LiteralUrl4(ip) /\ Disallowed4(ip)) => call.result # "ok"

\* C13: validateUrlSecurity rejects http://[h]/ for every literal IPv6 host h
\* that is ::1 or lies in fc00::/7 or fe80::/10.
C13_RejectsPrivateV6Literal ==
    \A h \in HostV6 :
        (Called /\ call.url = LiteralUrl6(h) /\ Disallowed6(h)) => call.result # "ok"

\* C14: validateUrlSecurity rejects every URL whose scheme is neither http nor
\* https and every text that is no URL, rejects http://127.0.0.1/,
\* http://169.254.169.254/ and http://localhost:4321, and accepts
\* https://example.com/article when the resolver answers public addresses only.
C14_GuardExamples ==
    Called =>
        /\ call.url \in OtherSchemeUrls => call.result = "BadProtocol"
        /\ call.url \in MalformedUrls => call.result \in {"InvalidUrl", "NoHostname"}
        /\ call.url \in {UrlLoopback, UrlMetadata, UrlLocalhost} => call.result = "BlockedHost"
        /\ call.url = UrlExampleArticle => call.result = "ok"

\* ftp://example.com was rejected for its scheme
C14_Witness == Called /\ call.url = UrlExampleFtp /\ call.result = "BadProtocol"

\* scrapeUrl is running its try block or its finally block for the request
InScrape(q) == q.pc \in {"render", "extract", "close"}

\* C15: a request launches at most one browser and closes only a browser it
\* launched; once scrapeUrl has returned or thrown, a browser that was launched
\* has been closed exactly once, whichever step between launch and return
\* failed; a browser is open only while scrapeUrl runs.
C15_BrowserReleased ==
    \A r \in Requests :
        /\ req[r].launches <= 1
        /\ req[r].closes <= req[r].launches
        /\ req[r].browser = "open" => (InScrape(req[r]) /\ req[r].launches = 1)
        /\ (req[r].launches = 1 /\ ~InScrape(req[r]))
              => (req[r].closes = 1 /\ req[r].browser = "closed")
        /\ req[r].launches = 0 => req[r].browser = "none"

\* the navigation was issued, a step from navigation to page.content() threw,
\* the browser was closed once and the request was answered with the fetch error
C15_Witness ==
    \E r \in Requests :
        /\ req[r].navigations = 1 /\ "render" \notin req[r].completed
        /\ req[r].pc = "done" /\ req[r].status = 400
        /\ req[r].launches = 1 /\ req[r].closes = 1 /\ req[r].browser = "closed"

\* the extraction has returned the digest of the document of the call
Digested == call.fn = "scrapeUrl" /\ call.returned

\* C16: every bounded field of the digest respects its cap: valueProps 10,
\* testimonials 5, stats 10, media 5, pricing.text 500 characters, faq 10,
\* urgency 5, ctas 10, bodyText 5000 characters, codeBlocks 10, headings 30,
\* links 20, tables 10.
C16_DigestCaps ==
    Digested =>
        /\ Len(call.lp.valueProps) <= 10
        /\ Len(call.lp.testimonials) <= 5
        /\ Len(call.lp.stats) <= 10
        /\ Len(call.lp.media) <= 5
        /\ Len(call.lp.pricingText) <= 500
        /\ Len(call.lp.faq) <= 10
        /\ Len(call.lp.urgency) <= 5
        /\ Len(call.lp.ctas) <= 10
        /\ Len(call.lp.bodyText) <= 5000
        /\ Len(call.lp.codeBlocks) <= 10
        /\ Len(call.lp.headings) <= 30
        /\ Len(call.lp.links) <= 20
        /\ Len(call.lp.tables) <= 10

\* a document with more than ten different h2 texts and more than thirty
\* headings gave ten valueProps and thirty headings
C16_Witness ==
    /\ Digested
    /\ Len(Dedupe(ValuePropsOf(call.doc.elements))) > 10
    /\ Len(call.lp.valueProps) = 10
    /\ Len(call.lp.headings) = 30

NoDuplicates(xs) == \A i, j \in DOMAIN xs : i # j => xs[i] # xs[j]

\* C17: every bounded collection of the digest has no two equal elements and
\* is the first cap-many of its candidates in document order with the later
\* duplicates removed.
C17_DedupedBeforeCap ==
    Digested =>
        /\ \A xs \in { call.lp.valueProps, call.lp.testimonials, call.lp.stats, call.lp.media,
                       call.lp.faq, call.lp.urgency, call.lp.ctas, call.lp.codeBlocks } :
              NoDuplicates(xs)
        /\ call.lp.valueProps = Slice(Dedupe(ValuePropsOf(call.doc.elements)), 10)
        /\ call.lp.ctas = Slice(Dedupe(CtasOf(call.doc.elements)), 10)
        /\ NoDuplicates(call.lp.headings)
        /\ call.lp.headings = Slice(Dedupe(HeadingsOf(call.doc.elements)), 30)
        /\ NoDuplicates(call.lp.links)
        /\ call.lp.links = Slice(Dedupe(LinksOf(call.doc.elements, call.url)), 20)
        /\ NoDuplicates(call.lp.tables)
        /\ call.lp.tables = Slice(Dedupe(TablesOf(call.doc.tables)), 10)

\* the header row of a table: the first row of its thead, or else its first
\* row when that row is made of th cells; 0 when it has none
HeaderRowIndex(table) ==
    LET rows == TableRowsInOrder(table)
    IN  IF \E i \in DOMAIN rows : rows[i].inThead
        THEN CHOOSE i \in DOMAIN rows :
                rows[i].inThead /\ \A k \in DOMAIN rows : rows[k].inThead => i <= k
        ELSE IF /\ Len(rows) > 0 /\ Len(rows[1].cells) > 0
                /\ \A j \in DOMAIN rows[1].cells : rows[1].cells[j].th
             THEN 1
        ELSE 0

\* what the digest should hold for a table: the cells of the header row, and
\* every other row that has a cell with text
ExpectedTable(table) ==
    LET rows   == TableRowsInOrder(table)
        header == HeaderRowIndex(table)
        Texts(row) == [j \in DOMAIN row.cells |-> Trim(row.cells[j].text)]
        F[i \in 0..Len(rows)] ==
            IF i = 0 THEN <<>>
            ELSE IF i # header /\ \E j \in DOMAIN rows[i].cells : Texts(rows[i])[j] # ""
                 THEN Append(F[i - 1], Texts(rows[i]))
            ELSE F[i - 1]
    IN  [headers |-> IF header = 0 THEN <<>> ELSE Texts(rows[header]), rows |-> F[Len(rows)]]

\* the tables a digest should hold: those with a header row or a row with text
ExpectedTables(tables) ==
    LET F[i \in 0..Len(tables)] ==
            IF i = 0 THEN <<>>
            ELSE IF \/ Len(ExpectedTable(tables[i]).headers) > 0
                    \/ Len(ExpectedTable(tables[i]).rows) > 0
                 THEN Append(F[i - 1], ExpectedTable(tables[i]))
            ELSE F[i - 1]
    IN  F[Len(tables)]

\* C18: for every table of the document the digest holds exactly the cells of
\* its header row as headers, and as rows every other row that is not empty,
\* the header row never among them.
C18_TableHeaderAndRows ==
    Digested => call.lp.tables = Slice(ExpectedTables(call.doc.tables), 10)

\* what the digest should hold for the a elements of a document: each href
\* that new URL accepts, internal when its hostname is the hostname of the page
ExpectedLinks(els) ==
    LET Case(el) == CHOOSE i \in DOMAIN LinkCases : LinkCases[i].href = el.href
        F[i \in 0..Len(els)] ==
            IF i = 0 THEN <<>>
            ELSE IF els[i].tag = "a" /\ LinkCases[Case(els[i])].valid
                 THEN Append(F[i - 1],
                             [type |-> IF LinkCases[Case(els[i])].hostname = "ex.com"
                                       THEN "internal" ELSE "external",
                              url |-> els[i].href, text |-> Trim(els[i].text)])
            ELSE F[i - 1]
    IN  F[Len(els)]

\* C19: the links of the digest are the a elements whose href new URL accepts,
\* in order, up to the cap, each internal exactly when the hostname of its
\* href resolved against the page URL is the hostname of the page URL; an href
\* that new URL rejects is left out and the extraction returns.
C19_LinkClassification ==
    Digested => call.lp.links = Slice(ExpectedLinks(call.doc.elements), 20)

\* a page with internal links, external links and hrefs that are no URL
C19_Witness ==
    /\ Digested
    /\ \E i, j \in DOMAIN call.lp.links :
          call.lp.links[i].type = "internal" /\ call.lp.links[j].type = "external"
    /\ \E k \in DOMAIN call.doc.elements :
          /\ call.doc.elements[k].tag = "a"
          /\ ClassifyLink(call.doc.elements[k].href, call.url) = "dropped"
    /\ Len(call.lp.links) = 19

(***************************************************************************)
(* The diagnose response: cached entries and the free plan                 *)
(***************************************************************************)
\* result.scores missing from the oracle's answer
NoScores == [absent |-> TRUE]

Issue(category, title) == [category |-> category, title |-> title]

\* i.category?.toLowerCase() === 'structure'
IsStructureIssue(i) ==
    i.category # Undefined /\ LowerCaseText(i.category) = "structure"

\* the scores object of the oracle's answers
FourScores == [structure |-> 80, context |-> 60, freshness |-> 40, credibility |-> 20]

\* the issues of the oracle's answers; a category that is missing is Undefined
IssueLists ==
    { <<>>,
      << Issue("structure", "s1") >>,
      << Issue("context", "c1"), Issue("Structure", "s1"), Issue("structure", "s2") >>,
      << Issue("context", "c1"), Issue("freshness", "f1"), Issue("credibility", "k1") >>,
      << Issue(Undefined, "n1"), Issue("structure", "s1") >> }

\* what parseJSON may return for an answer it can parse
OracleResults ==
    { [geo_score |-> g, scores |-> sc, issues |-> is, issuesIsArray |-> arr] :
        g \in OracleScores, sc \in {FourScores, NoScores},
        is \in IssueLists, arr \in BOOLEAN }

\* line 270: if (!Array.isArray(result.issues)) result.issues = []
WithDefaults(result) ==
    IF ~result.issuesIsArray
    THEN [result EXCEPT !.issues = <<>>, !.issuesIsArray = TRUE]
    ELSE result

\* lines 338-356: the free plan's masking of the computed result
MaskForFree(result) ==
    IF result.scores # NoScores
    THEN [result EXCEPT
            !.scores = [@ EXCEPT !.context = 0, !.freshness = 0, !.credibility = 0],
            !.issues = IF Len(@) > 0
                       THEN Slice(SelectSeq(@, IsStructureIssue), 1)
                       ELSE <<>>]
    ELSE result

\* lines 338-364: the body of the response of a computed diagnosis
ComputedBody(result, isPremium) ==
    LET shown == IF ~isPremium THEN MaskForFree(result) ELSE result
    IN  [geo_score |-> shown.geo_score, scores |-> shown.scores, issues |-> shown.issues,
         cached |-> FALSE, is_premium |-> isPremium]

\* lines 233-243: the body of the response of a cache hit
CachedBody(cachedResult, isPremium) ==
    [geo_score |-> cachedResult.overall_score, scores |-> cachedResult.detail_scores,
     issues |-> cachedResult.advice_data.issues, cached |-> TRUE,
     is_premium |-> isPremium]

\* saveCachedResult with the detail_scores and advice_data columns
InsertReportRow(rows, urlHash, contentHash, result, language, model, now) ==
    LET base == InsertRow(rows, urlHash, contentHash, result.geo_score, language, model, now)
    IN  [base EXCEPT ![Len(base)] =
            [url_hash |-> @.url_hash, content_hash |-> @.content_hash,
             language |-> @.language, model |-> @.model,
             overall_score |-> @.overall_score, created_at |-> @.created_at,
             detail_scores |-> result.scores,
             advice_data |-> [issues |-> result.issues]]]

NoReport == [fn |-> "POST", isPremium |-> FALSE, status |-> 0, body |-> [cached |-> FALSE]]

ReportUrl == UrlArticle

ReportBody == BodyTextOf[PageOriginal]

ReportLanguage == "ja"

InitReport ==
    /\ InitStore(InitialCredits)
    /\ call = NoReport

\* lines 228-230 for a request that passed the credit gate
ReportLookup(isPremium) ==
    getCachedResult(analysis_results, generateUrlHash(ReportUrl),
                    generateContentHash(ReportBody), ReportLanguage,
                    IF isPremium THEN AI_MODELS.pro ELSE Undefined, FALSE)

\* lines 230-247: the lookup finds an entry and the handler answers with it
ServeCached(isPremium) ==
    /\ call.fn = "POST"
    /\ ReportLookup(isPremium) # NullRow
    /\ call' = [fn |-> "POST", isPremium |-> isPremium, status |-> 200,
                body |-> CachedBody(ReportLookup(isPremium), isPremium)]
    /\ UNCHANGED <<profiles, analysis_results, clock, today, req, started>>

\* lines 230-364: the lookup misses, the oracle answers, the result is saved
\* as computed and the response is built from it
ServeComputed(isPremium, answer, outcome) ==
    /\ call.fn = "POST"
    /\ ReportLookup(isPremium) = NullRow
    /\ LET result       == WithDefaults(answer)
           currentModel == IF isPremium THEN AI_MODELS.pro ELSE AI_MODELS.free
       IN  /\ IF outcome = "ok"
              THEN /\ analysis_results' =
                        InsertReportRow(analysis_results, generateUrlHash(ReportUrl),
                                        generateContentHash(ReportBody), result,
                                        ReportLanguage, currentModel, clock + 1)
                   /\ clock' = clock + 1
              ELSE UNCHANGED <<analysis_results, clock>>
           /\ call' = [fn |-> "POST", isPremium |-> isPremium, status |-> 200,
                       body |-> ComputedBody(result, isPremium)]
    /\ UNCHANGED <<profiles, today, req, started>>

NextReport ==
    \/ \E isPremium \in BOOLEAN : ServeCached(isPremium)
    \/ \E isPremium \in BOOLEAN, answer \in OracleResults, outcome \in StoreOutcomes :
         ServeComputed(isPremium, answer, outcome)

SpecReport == InitReport /\ [][NextReport]_vars

\* a 200 response to a user who is not premium
FreeResponse == call.fn = "POST" /\ call.status = 200 /\ ~call.isPremium

\* context, freshness and credibility are not in the response, or are zero
HiddenScores(scores) ==
    \/ scores = NoScores
    \/ scores.context = 0 /\ scores.freshness = 0 /\ scores.credibility = 0

\* C20: every 200 response to a user who is not premium, computed or served
\* from the cache, shows no context, freshness or credibility score and at
\* most one issue, of the structure category
C20_FreeTierBlackBox ==
    FreeResponse =>
        /\ HiddenScores(call.body.scores)
        /\ Len(call.body.issues) <= 1
        /\ \A k \in 1..Len(call.body.issues) : IsStructureIssue(call.body.issues[k])

(***************************************************************************)
(* The free plan's quota: two requests of the free user at a time, no      *)
(* failure of any step and no credit reset; every diagnosis is counted.    *)
(***************************************************************************)
\* requests of the free user received in one run
MaxQuotaRequests == 4

QuotaBodies ==
    { [json |-> TRUE, hasUrl |-> TRUE, url |-> UrlArticle, language |-> l] : l \in Languages }

\* the response of a finished request is a diagnosis computed by the oracle
OracleScored(q) == q.pc = "done" /\ q.status = 200 /\ ~q.cached

InitQuota ==
    /\ InitStore(InitialCredits)
    /\ call = [fn |-> "POST", received |-> 0, scored |-> 0]

\* a request of the free user arrives
ReceiveQuota(r, body) ==
    /\ req[r].pc = "idle"
    /\ call.fn = "POST"
    /\ call.received < MaxQuotaRequests
    /\ req' = [req EXCEPT ![r] =
                 Arrival(req[r], body, [bearer |-> TRUE, token |-> "tok_u1"], TRUE)]
    /\ call' = [call EXCEPT !.received = @ + 1]
    /\ UNCHANGED <<profiles, analysis_results, clock, today, started>>

\* the handler has returned and its response is counted
Settle(r) ==
    /\ req[r].pc = "done"
    /\ call.fn = "POST"
    /\ req' = [req EXCEPT ![r] = IdleRequest]
    /\ call' = [call EXCEPT !.scored = @ + (IF OracleScored(req[r]) THEN 1 ELSE 0)]
    /\ UNCHANGED <<profiles, analysis_results, clock, today, started>>

NextQuota ==
    \/ \E r \in Requests, body \in QuotaBodies : ReceiveQuota(r, body)
    \/ \E r \in Requests : GetUser(r)
    \/ \E r \in Requests : ProfileRead(r, FALSE)
    \/ \E r \in Requests : Validate(r, DnsAnswer(<<Fmt4(PublicV4)>>), DnsFailure)
    \/ \E r \in Requests : Launch(r, TRUE)
    \/ \E r \in Requests : Render(r, "none", PageOriginal)
    \/ \E r \in Requests : Extract(r, FALSE)
    \/ \E r \in Requests : Close(r)
    \/ \E r \in Requests : Fingerprint(r)
    \/ \E r \in Requests : Lookup(r, FALSE)
    \/ \E r \in Requests, score \in OracleScores : Oracle(r, "ok", score)
    \/ \E r \in Requests : Store(r, "ok")
    \/ \E r \in Requests : CreditUpdate(r, FALSE)
    \/ \E r \in Requests : Settle(r)

SpecQuota == InitQuota /\ [][NextQuota]_vars

\* diagnoses computed by the oracle that the free user has received
ScoredSoFar ==
    call.scored + Cardinality({ r \in Requests : OracleScored(req[r]) })

\* C21: between two credit resets a free user who starts with 3 credits
\* receives at most 3 diagnoses computed by the oracle, in every interleaving
\* of that user's requests
C21_QuotaUnderConcurrency ==
    call.fn = "POST" => ScoredSoFar <= InitialCredits

\* the request carries no bearer token, or one the identity provider does not verify
Unauthenticated(q) ==
    q.pc # "idle" /\ (~q.header.bearer \/ TokenUser(q.header.token) = "")

\* no scrape, lookup, oracle call, store or credit consumption was started
ReachedNothing(q) ==
    /\ q.stages = <<>>
    /\ q.launches = 0 /\ q.inserts = 0 /\ q.consumeCalls = 0 /\ q.decrements = 0
    /\ q.pc \in {"getUser", "done"}

\* C22 as stated: a request that is not authenticated ends with 401 and starts
\* no scrape, lookup, oracle call, store or credit consumption
C22_Unauthenticated401 ==
    \A r \in Requests :
        Unauthenticated(req[r]) =>
            /\ ReachedNothing(req[r])
            /\ req[r].pc = "done" => req[r].status = 401

\* the responses sent before the Authorization header is read
RejectedBeforeLogin(q) ==
    \/ q.status = 500 /\ q.kind \in {"Internal", "ApiConfig"}
    \/ q.status = 400 /\ q.kind \in {"EnterUrl", "InvalidUrl"}

\* C22: a request that is not authenticated starts no scrape, lookup, oracle
\* call, store or credit consumption, and ends with 401 unless its body, its
\* URL or the server's API key was rejected first (400 or 500)
C22_LoginRequired ==
    \A r \in Requests :
        Unauthenticated(req[r]) =>
            /\ ReachedNothing(req[r])
            /\ req[r].pc = "done" =>
                 \/ req[r].status = 401 /\ req[r].kind = "LoginRequired"
                 \/ RejectedBeforeLogin(req[r]) /\ req[r].token = ""

\* a request with a token of no user was answered 401 after getUser
C22_Witness ==
    \E r \in Requests :
        /\ req[r].pc = "done" /\ req[r].status = 401
        /\ req[r].header.bearer /\ req[r].header.token = "tok_bad"
        /\ req[r].token = "tok_bad"

(***************************************************************************)
(* The fingerprints on their own: two texts and two URLs are hashed.       *)
(***************************************************************************)
HashUrls == {UrlArticle, UrlArticleB, UrlFtp}

InitHash ==
    /\ InitStore(InitialCredits)
    /\ call \in { [fn |-> "generateContentHash", a |-> a, b |-> b, urlA |-> ua, urlB |-> ub,
                   returned |-> FALSE, hashA |-> "", hashB |-> "",
                   urlHashA |-> "", urlHashB |-> ""] :
                  a \in HashTexts, b \in HashTexts, ua \in HashUrls, ub \in HashUrls }

\* diagnose.ts lines 221-222 on each of the two pages
HashCall ==
    /\ call.fn = "generateContentHash"
    /\ ~call.returned
    /\ call' = [call EXCEPT !.returned = TRUE,
                            !.hashA = generateContentHash(call.a),
                            !.hashB = generateContentHash(call.b),
                            !.urlHashA = generateUrlHash(call.urlA),
                            !.urlHashB = generateUrlHash(call.urlB)]
    /\ UNCHANGED <<profiles, analysis_results, clock, today, req, started>>

NextHash == HashCall

SpecHash == InitHash /\ [][NextHash]_vars

Hashed == call.fn = "generateContentHash" /\ call.returned

ErrorMessage(kind) ==
    CASE kind = "EnterUrl"      -> "Please enter a URL"
      [] kind = "InvalidUrl"    -> "Please enter a valid URL"
      [] kind = "ApiConfig"     -> "API configuration error"
      [] kind = "LoginRequired" -> "Login is required to perform diagnosis."
      [] kind = "FetchFailed"   -> "Failed to fetch the page. Please check the URL or server load."
      [] kind = "Internal"      -> "An error occurred."
      [] OTHER                  -> ""

\* the message of a request whose launch or render failed
RenderFailureMessage == ErrorMessage("FetchFailed")

\* the messages of a request whose url is missing or is not an http(s) URL
BadInputMessages == { ErrorMessage("EnterUrl"), ErrorMessage("InvalidUrl") }

\* the oracle call or the parse of its answer threw for the request
ScoringFailed(q) ==
    "oracle" \in StageSet(q) /\ "oracle" \notin q.completed /\ q.pc = "done"

\* C24: a request whose URL is missing, invalid or blocked by the address
\* guard, a request whose render failed and a request whose scoring failed
\* are answered with three different messages
C24_DistinctFailureMessages ==
    \A r \in Requests :
        req[r].pc = "done" =>
            /\ (ValidationFailed(req[r]) \/ req[r].kind \in {"EnterUrl", "InvalidUrl"}) =>
                  ErrorMessage(req[r].kind) # RenderFailureMessage
            /\ RenderFailed(req[r]) => ErrorMessage(req[r].kind) = RenderFailureMessage
            /\ ScoringFailed(req[r]) =>
                  ErrorMessage(req[r].kind) \notin BadInputMessages \cup {RenderFailureMessage}

\* the page of the call has an empty body
EmptyBody == call.doc.elements = <<>> /\ call.doc.tables = <<>>

C26_CreditsInRange ==
    \A u \in Users : profiles[u].free_credits \in 0..InitialCredits

\* a request is about to write the decrement of a value it read before
\* another request of the same user wrote its own: the row holds 0, the
\* request read 1
C26_Witness ==
    \E r \in Requests :
        /\ req[r].pc = "creditUpdate"
        /\ req[r].profile.free_credits = 1
        /\ profiles[req[r].userId].free_credits = 0

\* C27: a request whose oracle call fails, or whose answer cannot be parsed,
\* ends with an error response, inserts nothing into the cache and neither
\* calls consumeCredit nor decrements the credits
C27_OracleFailureChangesNothing ==
    \A r \in Requests :
        ScoringFailed(req[r]) =>
            /\ req[r].status = 500 /\ req[r].kind = "Internal"
            /\ req[r].inserts = 0 /\ req[r].consumeCalls = 0 /\ req[r].decrements = 0
            /\ "store" \notin StageSet(req[r]) /\ "consume" \notin StageSet(req[r])

\* the oracle failed for a free user who has credits
C27_Witness ==
    \E r \in Requests :
        /\ ScoringFailed(req[r])
        /\ req[r].userId = "u1" /\ ~req[r].isPremium
        /\ profiles["u1"].free_credits > 0
        /\ req[r].status = 500

(***************************************************************************)
(* The overall score: diagnose.ts lines 289-302 on answers of the oracle.  *)
(* Numbers are held in tenths, so that 72.5 is 725.                        *)
(***************************************************************************)
\* a JSON value that is a number, given in tenths
Num(tenths) == [type |-> "number", tenths |-> tenths]

\* a JSON value that is a string, and a key that is missing
Str == [type |-> "string", tenths |-> 0]

Missing == [type |-> "undefined", tenths |-> 0]

\* geo_score of the answers: missing, a string, -5, 0, 72, 72.5, 100, 100.5, 150
GeoScores == { Missing, Str, Num(-50), Num(0), Num(720), Num(725), Num(1000), Num(1005),
               Num(1500) }

\* the scores object of the answers: missing (the empty sequence stands for an
\* object without keys), or the values of its keys
AxisScores ==
    { Missing,
      [type |-> "object", values |-> <<>>],
      [type |-> "object", values |-> << Num(800), Num(600), Num(400), Num(200) >>],
      [type |-> "object", values |-> << Num(810), Num(600), Num(400), Num(200) >>],
      [type |-> "object", values |-> << Num(10), Num(20) >>],
      [type |-> "object", values |-> << Num(3000), Num(2000), Num(1000), Num(4000) >>],
      [type |-> "object", values |-> << Num(-100), Num(-200), Num(-300), Num(-400) >>],
      [type |-> "object", values |-> << Str, Num(900), Str, Str >>],
      [type |-> "object", values |-> << Str, Str >>] }

\* Object.values(result.scores).filter(v => typeof v === 'number')
NumericValues(scores) ==
    SelectSeq(scores.values, LAMBDA v : v.type = "number")

\* values.reduce((a, b) => a + b, 0), in tenths
SumTenths(values) ==
    LET F[i \in 0..Len(values)] == IF i = 0 THEN 0 ELSE F[i - 1] + values[i].tenths
    IN  F[Len(values)]

\* floor of a / b for b > 0
FloorDiv(a, b) == IF a >= 0 THEN a \div b ELSE -(((-a) + b - 1) \div b)

\* Math.round(sum / n): the integer nearest to the mean, halves rounded up;
\* the result is in tenths again
RoundedMean(sum, n) == 10 * FloorDiv(2 * sum + 10 * n, 20 * n)

\* lines 289-302: result.geo_score after the validation
ValidatedGeoScore(geo, scores) ==
    IF geo.type # "number" \/ geo.tenths < 0 \/ geo.tenths > 1000
    THEN IF scores # Missing
         THEN LET values == NumericValues(scores)
              IN  IF Len(values) > 0
                  THEN Num(RoundedMean(SumTenths(values), Len(values)))
                  ELSE Num(500)
         ELSE Num(500)
    ELSE geo

InitScore ==
    /\ InitStore(InitialCredits)
    /\ call \in { [fn |-> "POST", geo_score |-> g, scores |-> sc, returned |-> FALSE,
                   overall_score |-> Missing, response |-> Missing] :
                  g \in GeoScores, sc \in AxisScores }

\* lines 289-364: the score is validated, passed to saveCachedResult and
\* returned in the response
ScoreCall ==
    /\ call.fn = "POST"
    /\ ~call.returned
    /\ LET geo == ValidatedGeoScore(call.geo_score, call.scores)
       IN  call' = [call EXCEPT !.returned = TRUE, !.overall_score = geo, !.response = geo]
    /\ UNCHANGED <<profiles, analysis_results, clock, today, req, started>>

NextScore == ScoreCall

SpecScore == InitScore /\ [][NextScore]_vars

\* v is a number, an integer, and in 0..100
IntegerInRange(v) ==
    v.type = "number" /\ v.tenths % 10 = 0 /\ v.tenths >= 0 /\ v.tenths <= 1000

\* geo_score of the answer is a number in 0..100
ValidGeo(geo) == geo.type = "number" /\ geo.tenths >= 0 /\ geo.tenths <= 1000

\* C28: whatever geo_score and axis scores the oracle returns, the overall
\* score stored and the one returned are the same integer in 0..100; an
\* invalid geo_score is replaced by the rounded mean of the numeric axis
\* scores, or by 50 when there are none
C28_OverallScoreInRange ==
    (call.fn = "POST" /\ call.returned) =>
        /\ call.overall_score = call.response
        /\ IntegerInRange(call.response)
        /\ ~ValidGeo(call.geo_score) =>
             call.response =
                IF call.scores # Missing /\ Len(NumericValues(call.scores)) > 0
                THEN Num(RoundedMean(SumTenths(NumericValues(call.scores)),
                                     Len(NumericValues(call.scores))))
                ELSE Num(500)

\* C29: a free user who receives a diagnosis computed by the oracle has paid
\* for it: the request decremented the stored free_credits exactly once,
\* also when the profile cannot be read and when the decrement fails
C29_NoUnchargedDiagnosis ==
    \A r \in Requests :
        (/\ OracleScored(req[r])
         /\ req[r].userId # ""
         /\ ~profiles[req[r].userId].is_premium) => req[r].decrements = 1

\* C30: validateUrlSecurity accepts an http(s) URL whose host is a DNS name
\* that no blocked hostname or domain pattern matches and that resolves to
\* public addresses only, whatever the name starts with
C30_AcceptsPublicNames ==
    (/\ Called
     /\ call.url \in PublicNameUrls \cup {UrlExampleArticle, UrlArticle}
     /\ ~isBlockedHostname(ParseURL(call.url).hostname)
     /\ ~call.dns4.rejected /\ ~BlockRuleHit) => call.result = "ok"

====
